---- MODULE Spec2Model ----
(***************************************************************************)
(* Key-derivation and transaction-construction engine of a two-party       *)
(* payment channel: commitment transactions (fee, dust trimming, output    *)
(* order, obscured commitment number), second-stage HTLC transactions, the *)
(* per-commitment secret chain, key derivation, the funding script,        *)
(* signing, signature verification and witness assembly.                   *)
(*                                                                         *)
(* Number representations.                                                 *)
(*  - Satoshi amounts and fee rates are u64 in the source and stay far     *)
(*    below 2^31 here, so they are integers.  The one u64 subtraction that *)
(*    can leave the range, to_local_value - fee, is kept as the integer    *)
(*    congruent to the wrapped result modulo 2^64: n < 0 stands for the    *)
(*    u64 value 2^64 + n.  U64Cmp orders such values as u64 orders them.   *)
(*  - Commitment numbers, the obscure factor, lock_time and sequence are   *)
(*    bit strings whose upper bits matter; such a word is the set of the   *)
(*    positions of its 1 bits (bit 0 least significant).                   *)
(*  - SHA-256 is a collision-free function with unknown values: a hash of  *)
(*    key material is a term (the data hashed), digests that are compared  *)
(*    as bytes are drawn when the state is drawn.                          *)
(***************************************************************************)
EXTENDS Integers, Sequences, FiniteSets, TLC

VARIABLES
    overflow_checks,   \* build profile: TRUE = arithmetic overflow panics
    chan,              \* parameters supplied by the channel-state layer
    sha_digest,        \* SHA256(a || b) per basepoint pair, as a 256-bit word
    tx,                \* the commitment transaction being built, or NoTx
    outcome,           \* how the last call on tx ended
    trimmed,           \* HTLC lists left after dust trimming
    built,             \* locals of the builder: fee and outputs with metadata
    htlc_tx,           \* second-stage HTLC transaction, or NoTx
    htlc_call,         \* inputs of the call that produced htlc_tx
    commitment_seed,   \* ChannelKeyManager.commitment_seed
    secret_request,    \* the commitment number asked for
    secret,            \* the 32-byte buffer returned and then held, or NoSecret
    per_commitment_point, \* the point returned, or NoPoint
    chain_steps,       \* flip-and-hash steps applied to the held buffer
    verify_call,       \* arguments of verify_signature
    verify_result,     \* "none", "true", "false" or "panic"
    key_call,          \* a base secret and a per-commitment secret
    sha_scalar,        \* SHA256(first || second) of two points, as a scalar
    derived,           \* what each key derivation returned for key_call
    funding_keys,      \* the two funding public keys
    funding_script,    \* create_funding_script per order of the arguments
    factor_call,       \* the two basepoints an obscure factor is asked for
    obscure_factor,    \* the factor per direction of the call
    sign_call,         \* arguments of sign_transaction_input
    signed,            \* what sign_transaction_input returned
    witness_call,      \* what a caller holds when it asks for a witness
    witness,           \* the witness each builder returned
    finalized,         \* the transaction each finalize_htlc_* returned
    sort_input,        \* a list of outputs with metadata
    sort_result        \* sort_outputs of it, once and twice

txVars == <<overflow_checks, chan, sha_digest, tx, outcome, trimmed, built, htlc_tx, htlc_call>>
secretVars == <<commitment_seed, secret_request, secret, per_commitment_point, chain_steps>>
verifyVars == <<verify_call, verify_result>>
keyVars == <<key_call, sha_scalar, derived>>
fundingVars == <<funding_keys, funding_script>>
factorVars == <<factor_call, obscure_factor>>
signVars == <<sign_call, signed>>
witnessVars == <<witness_call, witness, finalized>>
sortVars == <<sort_input, sort_result>>
vars == <<txVars, secretVars, verifyVars, keyVars, fundingVars, factorVars, signVars, witnessVars, sortVars>>

-----------------------------------------------------------------------------
(* Bounds of the model *)

MaxBalanceSat == 3
MaxHtlcSat == 4
MaxHtlcs == 2
MaxChainSteps == 3
MaxSortLen == 3

-----------------------------------------------------------------------------
(* Words as sets of bit positions *)

RECURSIVE BitsFrom(_, _)
BitsFrom(n, k) ==
    IF n = 0 THEN {}
    ELSE (IF n % 2 = 1 THEN {k} ELSE {}) \cup BitsFrom(n \div 2, k + 1)

\* the word whose value is the natural number n
BitsOf(n) == BitsFrom(n, 0)

ShiftLeft(w, k) == {b + k : b \in w}
ShiftRight(w, k) == {b - k : b \in {c \in w : c >= k}}
Xor(a, b) == (a \ b) \cup (b \ a)
Or(a, b) == a \cup b
And(a, b) == a \cap b
AsU32(w) == {b \in w : b < 32}

\* a < b as unsigned numbers: the highest bit in which they differ is b's
WordLess(a, b) == \E k \in b \ a : \A m \in a \ b : m < k

RECURSIVE SubFrom(_, _, _, _)
SubFrom(a, b, k, borrow) ==
    IF k = 64 THEN {}
    ELSE LET x == IF k \in a THEN 1 ELSE 0
             y == (IF k \in b THEN 1 ELSE 0) + borrow
         IN  (IF (x - y) % 2 = 1 THEN {k} ELSE {})
                 \cup SubFrom(a, b, k + 1, IF x < y THEN 1 ELSE 0)

\* a - b on u64, wrapping modulo 2^64
WrappingSub(a, b) == SubFrom(a, b, 0, 0)

-----------------------------------------------------------------------------
(* Results *)

NoTx == [none |-> TRUE]
NoBuild == [none |-> TRUE]
None == <<>>
Some(x) == <<x>>

\* Ordering of two integers, as Ord::cmp: -1 less, 0 equal, 1 greater
IntCmp(a, b) == IF a < b THEN -1 ELSE IF a > b THEN 1 ELSE 0

\* u64 ordering of amounts; a negative integer stands for 2^64 + itself
U64Cmp(a, b) ==
    IF (a < 0) = (b < 0) THEN IntCmp(a, b)
    ELSE IF a < 0 THEN 1 ELSE -1

Then(first, second) == IF first # 0 THEN first ELSE second

RECURSIVE SeqCmp(_, _)
\* lexicographic Ordering of two byte strings, as <[u8] as Ord>::cmp
SeqCmp(a, b) ==
    IF a = <<>> THEN (IF b = <<>> THEN 0 ELSE -1)
    ELSE IF b = <<>> THEN 1
    ELSE Then(IntCmp(Head(a), Head(b)), SeqCmp(Tail(a), Tail(b)))

\* Ordering of two Option<u32>: None is lowest
OptionCmp(a, b) ==
    IF a = None THEN (IF b = None THEN 0 ELSE -1)
    ELSE IF b = None THEN 1
    ELSE IntCmp(a[1], b[1])

RECURSIVE SumSeq(_)
SumSeq(s) == IF s = <<>> THEN 0 ELSE Head(s) + SumSeq(Tail(s))

\* sequences over S of length at most n
SeqsUpTo(S, n) == UNION {[1..k -> S] : k \in 0..n}

-----------------------------------------------------------------------------
(* Fees: src/exercises/transactions/fees.rs *)

\* the fee of a commitment transaction without HTLC outputs, whatever n
calculate_commitment_tx_fee_no_htlcs(feerate_per_kw, num_untrimmed_htlcs) ==
    LET weight == 724
    IN  (feerate_per_kw * weight) \div 1000

calculate_commitment_tx_fee(feerate_per_kw, num_untrimmed_htlcs) ==
    LET weight == 724 + (172 * num_untrimmed_htlcs)
    IN  (feerate_per_kw * weight) \div 1000

calculate_htlc_timeout_tx_fee(feerate_per_kw) ==
    LET HTLC_TX_WEIGHT == 663
    IN  (feerate_per_kw * HTLC_TX_WEIGHT) \div 1000

calculate_htlc_success_tx_fee(feerate_per_kw) ==
    LET HTLC_TX_WEIGHT == 703
    IN  (feerate_per_kw * HTLC_TX_WEIGHT) \div 1000

\* the same with the two fee estimates exchanged
is_htlc_dust_swapped_weights(htlc_amount_sat, dust_limit_satoshis, feerate_per_kw, outbound_htlc) ==
    LET htlc_tx_fee == IF outbound_htlc
                       THEN calculate_htlc_success_tx_fee(feerate_per_kw)
                       ELSE calculate_htlc_timeout_tx_fee(feerate_per_kw)
    IN  htlc_amount_sat < dust_limit_satoshis + htlc_tx_fee

\* the same comparing the amount with the fee alone
is_htlc_dust_fee_only(htlc_amount_sat, dust_limit_satoshis, feerate_per_kw, outbound_htlc) ==
    LET htlc_tx_fee == IF outbound_htlc
                       THEN calculate_htlc_timeout_tx_fee(feerate_per_kw)
                       ELSE calculate_htlc_success_tx_fee(feerate_per_kw)
    IN  htlc_amount_sat < htlc_tx_fee

is_htlc_dust(htlc_amount_sat, dust_limit_satoshis, feerate_per_kw, outbound_htlc) ==
    LET htlc_tx_fee == IF outbound_htlc
                       THEN calculate_htlc_timeout_tx_fee(feerate_per_kw)
                       ELSE calculate_htlc_success_tx_fee(feerate_per_kw)
    IN  htlc_amount_sat < dust_limit_satoshis + htlc_tx_fee

-----------------------------------------------------------------------------
(* Scripts.  A witness script is the record of what its builder puts into  *)
(* it; an output script is a witness program over a hash of key or script. *)

create_to_remote_script(remote_pubkey) ==
    [program |-> "p2wpkh", of |-> remote_pubkey]

create_to_local_script(revocation_pubkey, local_delayedpubkey, to_self_delay) ==
    [branch |-> "to_local", revocation_pubkey |-> revocation_pubkey,
     local_delayedpubkey |-> local_delayedpubkey, to_self_delay |-> to_self_delay]

create_offered_htlc_script(revocation_pubkey, local_htlcpubkey, remote_htlcpubkey, payment_hash) ==
    [branch |-> "offered_htlc", revocation_pubkey |-> revocation_pubkey,
     local_htlcpubkey |-> local_htlcpubkey, remote_htlcpubkey |-> remote_htlcpubkey,
     payment_hash |-> payment_hash]

create_received_htlc_script(revocation_pubkey, local_htlcpubkey, remote_htlcpubkey, payment_hash, cltv_expiry) ==
    [branch |-> "received_htlc", revocation_pubkey |-> revocation_pubkey,
     local_htlcpubkey |-> local_htlcpubkey, remote_htlcpubkey |-> remote_htlcpubkey,
     payment_hash |-> payment_hash, cltv_expiry |-> cltv_expiry]

to_p2wsh(witness_script) == [program |-> "p2wsh", of |-> witness_script]

\* One byte standing for the hash in a witness program.  Distinct hashed
\* data get distinct bytes (no collisions); which byte is the larger is an
\* arbitrary but fixed fact, as it is for SHA-256.
HashByte(data) ==
    IF "branch" \notin DOMAIN data THEN 9
    ELSE IF data.branch = "to_local" THEN 40
    ELSE IF data.branch = "offered_htlc" THEN 60 - (7 * data.payment_hash)
    ELSE 20 + (11 * data.payment_hash) + (data.cltv_expiry % 10)

\* serialized output script: OP_0, push of 20 or 32 bytes, the hash
ScriptBytes(script) ==
    IF script.program = "p2wpkh" THEN <<0, 20, HashByte([key |-> script.of])>>
    ELSE <<0, 32, HashByte(script.of)>>

ScriptCmp(a, b) == SeqCmp(ScriptBytes(a), ScriptBytes(b))

-----------------------------------------------------------------------------
(* Commitment transaction: src/exercises/transactions/commitment.rs *)

\* (1 << 48) - 1
INITIAL_COMMITMENT_NUMBER == 0..47

\* SHA256(first || second), bytes 26..31 as a big-endian 48-bit number
\* res[i] as u64: byte i of the 32-byte digest, byte 31 being bits 0..7
DigestByte(res, i) ==
    LET low == (31 - i) * 8
    IN  ShiftRight(And(res, low..(low + 7)), low)

\* the factor with the broadcaster's basepoint hashed first in both directions
get_commitment_transaction_number_obscure_factor_broadcaster_first(broadcaster_payment_basepoint, countersignatory_payment_basepoint, outbound_from_broadcaster) ==
    LET res == sha_digest[<<broadcaster_payment_basepoint, countersignatory_payment_basepoint>>]
    IN  Or(ShiftLeft(DigestByte(res, 26), 5 * 8),
        Or(ShiftLeft(DigestByte(res, 27), 4 * 8),
        Or(ShiftLeft(DigestByte(res, 28), 3 * 8),
        Or(ShiftLeft(DigestByte(res, 29), 2 * 8),
        Or(ShiftLeft(DigestByte(res, 30), 1 * 8),
           ShiftLeft(DigestByte(res, 31), 0 * 8))))))

get_commitment_transaction_number_obscure_factor(broadcaster_payment_basepoint, countersignatory_payment_basepoint, outbound_from_broadcaster) ==
    LET res == IF outbound_from_broadcaster
               THEN sha_digest[<<broadcaster_payment_basepoint, countersignatory_payment_basepoint>>]
               ELSE sha_digest[<<countersignatory_payment_basepoint, broadcaster_payment_basepoint>>]
    IN  Or(ShiftLeft(DigestByte(res, 26), 5 * 8),
        Or(ShiftLeft(DigestByte(res, 27), 4 * 8),
        Or(ShiftLeft(DigestByte(res, 28), 3 * 8),
        Or(ShiftLeft(DigestByte(res, 29), 2 * 8),
        Or(ShiftLeft(DigestByte(res, 30), 1 * 8),
           ShiftLeft(DigestByte(res, 31), 0 * 8))))))

\* the number that is XOR-ed with the factor
ObscuredOperand(commitment_number) ==
    WrappingSub(INITIAL_COMMITMENT_NUMBER, commitment_number)

\* lock_time with the halves of the obscured number exchanged
LocktimeValueUpperHalf(obscured) ==
    Or(ShiftLeft(BitsOf(32), 8 * 3), AsU32(ShiftRight(obscured, 3 * 8)))

\* ((0x20 as u32) << 8 * 3) | ((obscured & 0xffffff) as u32)
LocktimeValue(obscured) ==
    Or(ShiftLeft(BitsOf(32), 8 * 3), AsU32(And(obscured, 0..23)))

\* ((0x80 as u32) << 8 * 3) | ((obscured >> 3 * 8) as u32)
SequenceValue(obscured) ==
    Or(ShiftLeft(BitsOf(128), 8 * 3), AsU32(ShiftRight(obscured, 3 * 8)))

\* The transaction after set_obscured_commitment_number, or a panic when
\* INITIAL_COMMITMENT_NUMBER - commitment_number overflows in a build with
\* overflow checks.
set_obscured_commitment_number(t, commitment_number, local_payment_basepoint, remote_payment_basepoint, outbound_from_broadcaster) ==
    LET factor == get_commitment_transaction_number_obscure_factor(
                      local_payment_basepoint, remote_payment_basepoint,
                      outbound_from_broadcaster)
        obscured == Xor(factor, ObscuredOperand(commitment_number))
    IN  IF overflow_checks /\ WordLess(INITIAL_COMMITMENT_NUMBER, commitment_number)
        THEN [panic |-> TRUE, tx |-> NoTx]
        ELSE [panic |-> FALSE,
              tx |-> [t EXCEPT !.lock_time = LocktimeValue(obscured),
                               !.input[1].sequence = SequenceValue(obscured)]]

\* to_remote first, then to_local; `to_local_value - fee` panics in a build
\* with overflow checks and wraps in one without
create_commitment_transaction_outputs(to_local_value, to_remote_value, commitment_keys, remote_payment_basepoint, to_self_delay, fee) ==
    LET to_remote == IF to_remote_value >= fee \div 2
                     THEN <<[value |-> to_remote_value,
                             script |-> create_to_remote_script(remote_payment_basepoint),
                             cltv_expiry |-> None]>>
                     ELSE <<>>
        to_local == IF to_local_value >= fee \div 2
                    THEN <<[value |-> to_local_value - fee,
                            script |-> to_p2wsh(create_to_local_script(
                                commitment_keys.revocation_key,
                                commitment_keys.local_delayed_payment_key,
                                to_self_delay)),
                            cltv_expiry |-> None]>>
                    ELSE <<>>
        panics == to_local_value >= fee \div 2 /\ to_local_value < fee /\ overflow_checks
    IN  [panic |-> panics, outputs |-> IF panics THEN <<>> ELSE to_remote \o to_local]

create_offered_output(commitment_keys, htlc) ==
    [value |-> htlc.amount_sat,
     script |-> to_p2wsh(create_offered_htlc_script(commitment_keys.revocation_key,
                   commitment_keys.local_htlc_key, commitment_keys.remote_htlc_key,
                   htlc.payment_hash)),
     cltv_expiry |-> None]

create_received_output(commitment_keys, htlc) ==
    [value |-> htlc.amount_sat,
     script |-> to_p2wsh(create_received_htlc_script(commitment_keys.revocation_key,
                   commitment_keys.local_htlc_key, commitment_keys.remote_htlc_key,
                   htlc.payment_hash, htlc.cltv_expiry)),
     cltv_expiry |-> Some(htlc.cltv_expiry)]

create_htlc_outputs(commitment_keys, offered_htlcs, received_htlcs) ==
    [i \in 1..Len(offered_htlcs) |-> create_offered_output(commitment_keys, offered_htlcs[i])]
        \o [i \in 1..Len(received_htlcs) |-> create_received_output(commitment_keys, received_htlcs[i])]

\* the comparator of sort_outputs
OutputCmp(a, b) ==
    Then(U64Cmp(a.value, b.value),
         Then(ScriptCmp(a.script, b.script), OptionCmp(a.cltv_expiry, b.cltv_expiry)))

RECURSIVE InsertSorted(_, _)
\* x put after every element that does not compare greater (stable)
InsertSorted(sorted, x) ==
    IF sorted = <<>> THEN <<x>>
    ELSE IF OutputCmp(Head(sorted), x) <= 0
         THEN <<Head(sorted)>> \o InsertSorted(Tail(sorted), x)
         ELSE <<x>> \o sorted

RECURSIVE SortPrefix(_, _)
SortPrefix(outputs, n) ==
    IF n = 0 THEN <<>> ELSE InsertSorted(SortPrefix(outputs, n - 1), outputs[n])

RECURSIVE DropRepeated(_)
DropRepeated(list) ==
    IF Len(list) < 2 THEN list
    ELSE IF list[1] = list[2] THEN DropRepeated(Tail(list))
    ELSE <<list[1]>> \o DropRepeated(Tail(list))

\* the sorted list with each run of equal entries reduced to one
sort_outputs_dedup(outputs) == DropRepeated(SortPrefix(outputs, Len(outputs)))

\* Vec::sort_by: the stable sort of the list under OutputCmp
sort_outputs(outputs) == SortPrefix(outputs, Len(outputs))

\* the two categories sorted each on its own and then put one after the other
build_and_sort_all_outputs_per_category(to_local_value, to_remote_value, commitment_keys, remote_payment_basepoint, to_self_delay, fee, offered_htlcs, received_htlcs) ==
    LET base == create_commitment_transaction_outputs(to_local_value, to_remote_value,
                    commitment_keys, remote_payment_basepoint, to_self_delay, fee)
        htlc_outputs == create_htlc_outputs(commitment_keys, offered_htlcs, received_htlcs)
    IN  [panic |-> base.panic,
         htlc_outputs |-> IF base.panic THEN <<>> ELSE htlc_outputs,
         outputs |-> IF base.panic THEN <<>>
                     ELSE sort_outputs(base.outputs) \o sort_outputs(htlc_outputs)]

build_and_sort_all_outputs(to_local_value, to_remote_value, commitment_keys, remote_payment_basepoint, to_self_delay, fee, offered_htlcs, received_htlcs) ==
    LET base == create_commitment_transaction_outputs(to_local_value, to_remote_value,
                    commitment_keys, remote_payment_basepoint, to_self_delay, fee)
        htlc_outputs == create_htlc_outputs(commitment_keys, offered_htlcs, received_htlcs)
    IN  [panic |-> base.panic,
         htlc_outputs |-> IF base.panic THEN <<>> ELSE htlc_outputs,
         outputs |-> IF base.panic THEN <<>>
                     ELSE sort_outputs(base.outputs \o htlc_outputs)]

create_commitment_transaction(funding_outpoint, to_local_value, to_remote_value, commitment_keys, remote_payment_basepoint, to_self_delay, feerate_per_kw, offered_htlcs, received_htlcs) ==
    LET num_htlcs == Len(offered_htlcs) + Len(received_htlcs)
        fee == calculate_commitment_tx_fee(feerate_per_kw, num_htlcs)
        all_outputs == build_and_sort_all_outputs(to_local_value, to_remote_value,
                           commitment_keys, remote_payment_basepoint, to_self_delay,
                           fee, offered_htlcs, received_htlcs)
    IN  IF all_outputs.panic THEN [panic |-> TRUE, tx |-> NoTx, locals |-> NoBuild]
        ELSE [panic |-> FALSE,
              locals |-> [fee |-> fee, htlc_outputs |-> all_outputs.htlc_outputs,
                          all_outputs |-> all_outputs.outputs],
              tx |-> [version |-> 2,
                      lock_time |-> {},
                      input |-> <<[previous_output |-> funding_outpoint,
                                   script_sig |-> <<>>,
                                   sequence |-> 0..31,
                                   witness |-> <<>>]>>,
                      output |-> [i \in 1..Len(all_outputs.outputs) |->
                                     [value |-> all_outputs.outputs[i].value,
                                      script_pubkey |-> all_outputs.outputs[i].script]]]]

-----------------------------------------------------------------------------
(* Second-stage HTLC transactions: src/solutions/transactions/htlc.rs *)

\* u64::saturating_sub
saturating_sub(a, b) == IF a >= b THEN a - b ELSE 0

\* the timeout transaction without its lock time
create_htlc_timeout_transaction_no_locktime(htlc_outpoint, htlc_amount, cltv_expiry, local_keys, to_self_delay, feerate_per_kw) ==
    LET fee == calculate_htlc_timeout_tx_fee(feerate_per_kw)
        output_amount == saturating_sub(htlc_amount, fee)
        to_local_script == create_to_local_script(local_keys.revocation_key,
                               local_keys.local_delayed_payment_key, to_self_delay)
    IN  [version |-> 2,
         lock_time |-> {},
         input |-> <<[previous_output |-> htlc_outpoint, script_sig |-> <<>>,
                      sequence |-> {}, witness |-> <<>>]>>,
         output |-> <<[value |-> output_amount,
                       script_pubkey |-> to_p2wsh(to_local_script)]>>]

create_htlc_timeout_transaction(htlc_outpoint, htlc_amount, cltv_expiry, local_keys, to_self_delay, feerate_per_kw) ==
    LET fee == calculate_htlc_timeout_tx_fee(feerate_per_kw)
        output_amount == saturating_sub(htlc_amount, fee)
        to_local_script == create_to_local_script(local_keys.revocation_key,
                               local_keys.local_delayed_payment_key, to_self_delay)
    IN  [version |-> 2,
         lock_time |-> BitsOf(cltv_expiry),
         input |-> <<[previous_output |-> htlc_outpoint, script_sig |-> <<>>,
                      sequence |-> {}, witness |-> <<>>]>>,
         output |-> <<[value |-> output_amount,
                       script_pubkey |-> to_p2wsh(to_local_script)]>>]

create_htlc_success_transaction(htlc_outpoint, htlc_amount, local_keys, to_self_delay, feerate_per_kw) ==
    LET fee == calculate_htlc_success_tx_fee(feerate_per_kw)
        output_amount == saturating_sub(htlc_amount, fee)
        to_local_script == create_to_local_script(local_keys.revocation_key,
                               local_keys.local_delayed_payment_key, to_self_delay)
    IN  [version |-> 2,
         lock_time |-> {},
         input |-> <<[previous_output |-> htlc_outpoint, script_sig |-> <<>>,
                      sequence |-> {}, witness |-> <<>>]>>,
         output |-> <<[value |-> output_amount,
                       script_pubkey |-> to_p2wsh(to_local_script)]>>]

-----------------------------------------------------------------------------
(* The channel-state layer's inputs *)

\* the keys of one commitment, as CommitmentKeys
TestCommitmentKeys ==
    [per_commitment_point |-> "per_commitment_point",
     revocation_key |-> "revocation_key",
     local_htlc_key |-> "local_htlc_key",
     remote_htlc_key |-> "remote_htlc_key",
     local_delayed_payment_key |-> "local_delayed_payment_key"]

PaymentBasepoints == {"local_payment_basepoint", "remote_payment_basepoint"}

\* a 48-bit word from its two 24-bit halves
Word48(upper24, lower24) == Or(ShiftLeft(BitsOf(upper24), 24), BitsOf(lower24))

\* 0x2bb038521914, the BOLT 3 obscure factor, and two more
ObscureFactors == {Word48(2863160, 5380372), Word48(0, 0), Word48(16777215, 1)}

FeeratesPerKw == {3, 10}
DustLimits == {0, 2}
PaymentHashes == {1}
CltvExpiries == {500}
FundingAmounts == {2 * MaxBalanceSat}

\* balances in millisatoshi: whole satoshis and one with a remainder
BalancesMsat == {s * 1000 : s \in 0..MaxBalanceSat} \cup {1999}

HTLCOutputs ==
    [amount_sat : 0..MaxHtlcSat, payment_hash : PaymentHashes, cltv_expiry : CltvExpiries]

FundingOutpoint == [txid |-> "funding_txid", vout |-> 0]

Bolt3Sha ==
    [p \in PaymentBasepoints \X PaymentBasepoints |->
        IF p[1] = "local_payment_basepoint" THEN Word48(2863160, 5380372) ELSE Word48(16777215, 1)]

NoSecret == [none |-> TRUE]
NoPoint == [none |-> TRUE]
NotCalled == [called |-> FALSE]
NoDerived ==
    [revocation_private |-> NotCalled, revocation_public |-> NotCalled,
     private |-> NotCalled, public |-> NotCalled]
NoScripts == [forward |-> NotCalled, swapped |-> NotCalled]
NoFactors == [forward |-> NotCalled, mirrored |-> NotCalled]
NoWitnesses ==
    [commitment |-> NotCalled, from_signatures |-> NotCalled,
     htlc_success |-> NotCalled, htlc_timeout |-> NotCalled]
NoFinalized == [timeout |-> NotCalled, success |-> NotCalled]
NoSorted == [once |-> NotCalled, twice |-> NotCalled]

\* the parts of the engine that a specification does not exercise
IdleSecret ==
    /\ commitment_seed = "seed_a"
    /\ secret_request = {}
    /\ secret = NoSecret
    /\ per_commitment_point = NoPoint
    /\ chain_steps = 0

IdleTx ==
    /\ overflow_checks = FALSE
    /\ chan = [none |-> TRUE]
    /\ sha_digest = Bolt3Sha
    /\ tx = NoTx
    /\ outcome = "none"
    /\ trimmed = [offered |-> <<>>, received |-> <<>>]
    /\ built = NoBuild
    /\ htlc_tx = NoTx
    /\ htlc_call = [kind |-> "none"]

IdleVerify ==
    /\ verify_call = [none |-> TRUE]
    /\ verify_result = "none"

IdleKeys ==
    /\ key_call = [none |-> TRUE]
    /\ sha_scalar = <<>>
    /\ derived = NoDerived

IdleFunding ==
    /\ funding_keys = <<>>
    /\ funding_script = NoScripts

IdleFactor ==
    /\ factor_call = [none |-> TRUE]
    /\ obscure_factor = NoFactors

IdleSign ==
    /\ sign_call = [none |-> TRUE]
    /\ signed = NotCalled

IdleWitness ==
    /\ witness_call = [none |-> TRUE]
    /\ witness = NoWitnesses
    /\ finalized = NoFinalized

IdleSort ==
    /\ sort_input = <<>>
    /\ sort_result = NoSorted

Init ==
    /\ IdleSecret
    /\ IdleVerify
    /\ IdleKeys
    /\ IdleFunding
    /\ IdleFactor
    /\ IdleSign
    /\ IdleWitness
    /\ IdleSort
    /\ overflow_checks \in BOOLEAN
    /\ chan \in [to_local_value_msat : BalancesMsat,
                 to_remote_value_msat : BalancesMsat,
                 offered_htlcs : SeqsUpTo(HTLCOutputs, MaxHtlcs),
                 received_htlcs : SeqsUpTo(HTLCOutputs, MaxHtlcs),
                 commitment_number : {BitsOf(42)},
                 to_self_delay : {144},
                 dust_limit_satoshis : DustLimits,
                 feerate_per_kw : FeeratesPerKw,
                 funding_amount : FundingAmounts,
                 local_payment_basepoint : {"local_payment_basepoint"},
                 remote_payment_basepoint : {"remote_payment_basepoint"},
                 outbound_from_broadcaster : {TRUE}]
    /\ Len(chan.offered_htlcs) + Len(chan.received_htlcs) <= MaxHtlcs
    /\ sha_digest = Bolt3Sha
    /\ tx = NoTx
    /\ outcome = "none"
    /\ trimmed = [offered |-> <<>>, received |-> <<>>]
    /\ built = NoBuild
    /\ htlc_tx = NoTx
    /\ htlc_call = [kind |-> "none"]

\* build_complete_commitment_transaction: trim the dust HTLCs, create the
\* transaction from what is left, set the obscured commitment number
BuildCompleteCommitmentTransaction ==
    /\ outcome = "none"
    /\ LET to_local_value == chan.to_local_value_msat \div 1000
           to_remote_value == chan.to_remote_value_msat \div 1000
           offered_trimmed == SelectSeq(chan.offered_htlcs,
               LAMBDA htlc : ~is_htlc_dust(htlc.amount_sat, chan.dust_limit_satoshis,
                                           chan.feerate_per_kw, TRUE))
           received_trimmed == SelectSeq(chan.received_htlcs,
               LAMBDA htlc : ~is_htlc_dust(htlc.amount_sat, chan.dust_limit_satoshis,
                                           chan.feerate_per_kw, FALSE))
           created == create_commitment_transaction(FundingOutpoint, to_local_value,
                          to_remote_value, TestCommitmentKeys, chan.remote_payment_basepoint,
                          chan.to_self_delay, chan.feerate_per_kw,
                          offered_trimmed, received_trimmed)
           obscured == IF created.panic THEN created
                       ELSE set_obscured_commitment_number(created.tx, chan.commitment_number,
                                chan.local_payment_basepoint, chan.remote_payment_basepoint,
                                TRUE)
       IN  /\ trimmed' = [offered |-> offered_trimmed, received |-> received_trimmed]
           /\ built' = created.locals
           /\ outcome' = IF obscured.panic THEN "panic" ELSE "built"
           /\ tx' = obscured.tx
    /\ UNCHANGED <<overflow_checks, chan, sha_digest, htlc_tx, htlc_call, secretVars, verifyVars, keyVars, fundingVars, factorVars, signVars, witnessVars, sortVars>>

\* create_commitment_transaction called on its own with the HTLC lists as
\* they are, as interactive/commitment.rs calls it before signing
CreateCommitmentTransaction ==
    /\ outcome = "none"
    /\ LET created == create_commitment_transaction(FundingOutpoint,
                          chan.to_local_value_msat \div 1000, chan.to_remote_value_msat \div 1000,
                          TestCommitmentKeys, chan.remote_payment_basepoint,
                          chan.to_self_delay, chan.feerate_per_kw,
                          chan.offered_htlcs, chan.received_htlcs)
       IN  /\ trimmed' = [offered |-> chan.offered_htlcs, received |-> chan.received_htlcs]
           /\ built' = created.locals
           /\ outcome' = IF created.panic THEN "panic" ELSE "created"
           /\ tx' = created.tx
    /\ UNCHANGED <<overflow_checks, chan, sha_digest, htlc_tx, htlc_call, secretVars, verifyVars, keyVars, fundingVars, factorVars, signVars, witnessVars, sortVars>>

\* create_htlc_timeout_transaction for the i-th offered HTLC
CreateHtlcTimeoutTransaction(i) ==
    /\ outcome # "none"
    /\ htlc_call.kind = "none"
    /\ LET htlc == chan.offered_htlcs[i]
       IN  /\ htlc_tx' = create_htlc_timeout_transaction(
                              [txid |-> "commitment_txid", vout |-> i - 1], htlc.amount_sat,
                              htlc.cltv_expiry, TestCommitmentKeys, chan.to_self_delay,
                              chan.feerate_per_kw)
           /\ htlc_call' = [kind |-> "timeout", htlc |-> htlc]
    /\ UNCHANGED <<overflow_checks, chan, sha_digest, tx, outcome, trimmed, built, secretVars, verifyVars, keyVars, fundingVars, factorVars, signVars, witnessVars, sortVars>>

\* create_htlc_success_transaction for the i-th received HTLC
CreateHtlcSuccessTransaction(i) ==
    /\ outcome # "none"
    /\ htlc_call.kind = "none"
    /\ LET htlc == chan.received_htlcs[i]
       IN  /\ htlc_tx' = create_htlc_success_transaction(
                              [txid |-> "commitment_txid", vout |-> i - 1], htlc.amount_sat,
                              TestCommitmentKeys, chan.to_self_delay, chan.feerate_per_kw)
           /\ htlc_call' = [kind |-> "success", htlc |-> htlc]
    /\ UNCHANGED <<overflow_checks, chan, sha_digest, tx, outcome, trimmed, built, secretVars, verifyVars, keyVars, fundingVars, factorVars, signVars, witnessVars, sortVars>>

Next ==
    \/ BuildCompleteCommitmentTransaction
    \/ \E i \in 1..Len(chan.offered_htlcs) : CreateHtlcTimeoutTransaction(i)
    \/ \E i \in 1..Len(chan.received_htlcs) : CreateHtlcSuccessTransaction(i)

Spec == Init /\ [][Next]_vars

\* the two entry points that return a commitment transaction to a caller
NextBuild ==
    \/ BuildCompleteCommitmentTransaction
    \/ CreateCommitmentTransaction

SpecBuild == Init /\ [][NextBuild]_vars

-----------------------------------------------------------------------------
(* Claims about the commitment build and the HTLC transactions (Spec) *)

ToLocalValue == chan.to_local_value_msat \div 1000
ToRemoteValue == chan.to_remote_value_msat \div 1000
HtlcAmounts(htlcs) == [i \in 1..Len(htlcs) |-> htlcs[i].amount_sat]
BalancesWithinFunding ==
    ToLocalValue + ToRemoteValue + SumSeq(HtlcAmounts(chan.offered_htlcs))
        + SumSeq(HtlcAmounts(chan.received_htlcs)) <= chan.funding_amount
CommitmentFee ==
    (chan.feerate_per_kw * (724 + 172 * (Len(trimmed.offered) + Len(trimmed.received)))) \div 1000
OutputValues == [i \in 1..Len(tx.output) |-> tx.output[i].value]
IsToLocal(out) == out.script_pubkey.program = "p2wsh" /\ out.script_pubkey.of.branch = "to_local"
IsToRemote(out) == out.script_pubkey.program = "p2wpkh"
IsBalanceOutput(out) == IsToLocal(out) \/ IsToRemote(out)
BalanceOutputs == {i \in 1..Len(tx.output) : IsBalanceOutput(tx.output[i])}

\* C1: a commitment transaction built from balances and HTLCs that fit in
\* the funding amount has output values (as u64, none wrapped) whose sum
\* plus the commitment fee does not exceed the funding amount.
C1_OutputsPlusFeeWithinFunding ==
    (outcome = "built" /\ BalancesWithinFunding) =>
        /\ \A i \in 1..Len(tx.output) : tx.output[i].value >= 0
        /\ SumSeq(OutputValues) + CommitmentFee <= chan.funding_amount

\* C2: every to_local or to_remote output of a built commitment transaction
\* has a value of at least dust_limit_satoshis, and there is none when both
\* balances are below the dust limit.
C2_BalanceOutputsNotDust ==
    outcome = "built" =>
        /\ \A i \in BalanceOutputs : U64Cmp(tx.output[i].value, chan.dust_limit_satoshis) >= 0
        /\ (ToLocalValue < chan.dust_limit_satoshis /\ ToRemoteValue < chan.dust_limit_satoshis)
               => BalanceOutputs = {}

OfferedKept(htlc) ==
    htlc.amount_sat >= chan.dust_limit_satoshis + ((chan.feerate_per_kw * 663) \div 1000)
ReceivedKept(htlc) ==
    htlc.amount_sat >= chan.dust_limit_satoshis + ((chan.feerate_per_kw * 703) \div 1000)
HtlcOutputCount(branch) ==
    Cardinality({i \in 1..Len(tx.output) :
        /\ tx.output[i].script_pubkey.program = "p2wsh"
        /\ tx.output[i].script_pubkey.of.branch = branch})

HtlcTxFee ==
    IF htlc_call.kind = "timeout" THEN (chan.feerate_per_kw * 663) \div 1000
    ELSE (chan.feerate_per_kw * 703) \div 1000

\* C9: satoshi arithmetic that would go negative is rejected: no HTLC
\* transaction is returned when its fee exceeds htlc_amount, and no to_local
\* output is produced when the commitment fee exceeds to_local_value.
C9_NegativeSatoshisRejected ==
    /\ (htlc_call.kind # "none" /\ HtlcTxFee > htlc_call.htlc.amount_sat) => htlc_tx = NoTx
    /\ (outcome = "built" /\ CommitmentFee > ToLocalValue) =>
           \A i \in 1..Len(tx.output) : ~IsToLocal(tx.output[i])

\* C20: an HTLC-success transaction has one input, one output and lock_time
\* 0; an HTLC-timeout transaction has one input, one output, lock_time equal
\* to the cltv_expiry of its HTLC and input sequence 0.
C20_HtlcTransactionShape ==
    /\ htlc_call.kind = "success" =>
           /\ Len(htlc_tx.input) = 1
           /\ Len(htlc_tx.output) = 1
           /\ htlc_tx.lock_time = {}
    /\ htlc_call.kind = "timeout" =>
           /\ Len(htlc_tx.input) = 1
           /\ Len(htlc_tx.output) = 1
           /\ htlc_tx.lock_time = BitsOf(htlc_call.htlc.cltv_expiry)
           /\ htlc_tx.input[1].sequence = {}

\* a timeout transaction for an HTLC with a non-zero expiry has been built
C20_Witness ==
    /\ htlc_call.kind = "timeout"
    /\ htlc_call.htlc.cltv_expiry > 0
    /\ htlc_tx # NoTx
    /\ htlc_tx.lock_time # {}

\* C21: the output of an HTLC-success transaction is worth
\* htlc_amount - floor(feerate_per_kw * 703 / 1000) and that of an
\* HTLC-timeout transaction htlc_amount - floor(feerate_per_kw * 663 / 1000),
\* each with the weight of its own type.
C21_HtlcOutputIsAmountLessOwnFee ==
    /\ htlc_call.kind = "success" =>
           htlc_tx.output[1].value
               = htlc_call.htlc.amount_sat - ((chan.feerate_per_kw * 703) \div 1000)
    /\ htlc_call.kind = "timeout" =>
           htlc_tx.output[1].value
               = htlc_call.htlc.amount_sat - ((chan.feerate_per_kw * 663) \div 1000)

\* the HTLC of the second-stage transaction is one that the commitment
\* build kept, in the list of its direction
HtlcSurvivedTrimming ==
    /\ htlc_call.kind # "none"
    /\ outcome # "none"
    /\ LET kept == IF htlc_call.kind = "timeout" THEN trimmed.offered ELSE trimmed.received
       IN  \E k \in 1..Len(kept) : kept[k] = htlc_call.htlc

-----------------------------------------------------------------------------
(* set_obscured_commitment_number on its own (SpecObscure), on the          *)
(* one-input transaction of test_17_set_obscured_commitment_number          *)

\* 0, 1, 42, 2^24 - 1, 2^24, 2^47 + 2^23, 2^48 - 2, 2^48 - 1, and three
\* u64 values outside the 48-bit range: 2^48, 2^48 + 1, 2^64 - 1
CommitmentNumbers ==
    {BitsOf(0), BitsOf(1), BitsOf(42), BitsOf(16777215), {24}, {23, 47}, 1..47, 0..47,
     {48}, {0, 48}, 0..63}

InRange48(commitment_number) == ~WordLess(INITIAL_COMMITMENT_NUMBER, commitment_number)

OneInputTransaction ==
    [version |-> 2,
     lock_time |-> {},
     input |-> <<[previous_output |-> [txid |-> "all_zeros", vout |-> 0],
                  script_sig |-> <<>>, sequence |-> {}, witness |-> <<>>]>>,
     output |-> <<>>]

InitObscure ==
    /\ IdleSecret
    /\ IdleVerify
    /\ IdleKeys
    /\ IdleFunding
    /\ IdleFactor
    /\ IdleSign
    /\ IdleWitness
    /\ IdleSort
    /\ overflow_checks \in BOOLEAN
    /\ chan \in [to_local_value_msat : {0},
                 to_remote_value_msat : {0},
                 offered_htlcs : {<<>>},
                 received_htlcs : {<<>>},
                 commitment_number : CommitmentNumbers,
                 to_self_delay : {144},
                 dust_limit_satoshis : {0},
                 feerate_per_kw : {0},
                 funding_amount : {0},
                 local_payment_basepoint : PaymentBasepoints,
                 remote_payment_basepoint : PaymentBasepoints,
                 outbound_from_broadcaster : BOOLEAN]
    /\ sha_digest \in [PaymentBasepoints \X PaymentBasepoints -> ObscureFactors]
    /\ tx = OneInputTransaction
    /\ outcome = "none"
    /\ trimmed = [offered |-> <<>>, received |-> <<>>]
    /\ built = NoBuild
    /\ htlc_tx = NoTx
    /\ htlc_call = [kind |-> "none"]

SetObscuredCommitmentNumber ==
    /\ outcome = "none"
    /\ LET result == set_obscured_commitment_number(tx, chan.commitment_number,
                         chan.local_payment_basepoint, chan.remote_payment_basepoint,
                         chan.outbound_from_broadcaster)
       IN  /\ outcome' = IF result.panic THEN "panic" ELSE "obscured"
           /\ tx' = IF result.panic THEN tx ELSE result.tx
    /\ UNCHANGED <<overflow_checks, chan, sha_digest, trimmed, built, htlc_tx, htlc_call, secretVars, verifyVars, keyVars, fundingVars, factorVars, signVars, witnessVars, sortVars>>

NextObscure == SetObscuredCommitmentNumber

SpecObscure == InitObscure /\ [][NextObscure]_vars

ObscureFactor ==
    get_commitment_transaction_number_obscure_factor(chan.local_payment_basepoint,
        chan.remote_payment_basepoint, chan.outbound_from_broadcaster)
Low24(word) == And(word, 0..23)
HighByte(word) == ShiftRight(AsU32(word), 24)
\* the 48-bit number held by the two fields: sequence payload above
\* lock_time payload
Encoded48 == Or(ShiftLeft(Low24(tx.input[1].sequence), 24), Low24(tx.lock_time))
\* the number the code obscures with the factor
ObscuredNumber == Xor(ObscureFactor, ObscuredOperand(chan.commitment_number))
Upper24(word48) == Low24(ShiftRight(word48, 24))

\* C6: for a commitment index in [0, 2^48) the 48-bit value encoded in the
\* transaction is obscure_factor XOR that index itself.
C6_EncodesFactorXorActualIndex ==
    (outcome = "obscured" /\ InRange48(chan.commitment_number)) =>
        Encoded48 = Xor(ObscureFactor, chan.commitment_number)

C8_DecodeRecoversIndex ==
    (outcome = "obscured" /\ InRange48(chan.commitment_number)) =>
        Xor(Encoded48, ObscureFactor) = chan.commitment_number

-----------------------------------------------------------------------------
(* Claims about the phases of a build, the order of the outputs and the fee *)

\* C11: every commitment transaction that a builder hands back to its caller
\* has passed the last phase, ObscuredNumberSet: it has one input, its
\* lock_time has high byte 0x20 and its input's sequence has high byte 0x80,
\* so neither is still 0 and 0xFFFFFFFF as the assembly left them.
C11_ReturnedWithObscuredNumber ==
    outcome \in {"built", "created"} =>
        /\ Len(tx.input) = 1
        /\ HighByte(tx.lock_time) = BitsOf(32)
        /\ HighByte(tx.input[1].sequence) = BitsOf(128)

\* a < b as u64 values (a negative integer stands for 2^64 + itself)
AmountLess(a, b) ==
    \/ a >= 0 /\ b >= 0 /\ a < b
    \/ a >= 0 /\ b < 0
    \/ a < 0 /\ b < 0 /\ a < b
\* a < b for byte strings, lexicographically
BytesLess(a, b) ==
    \/ \E k \in 1..Len(a) :
           /\ k <= Len(b)
           /\ SubSeq(a, 1, k - 1) = SubSeq(b, 1, k - 1)
           /\ a[k] < b[k]
    \/ Len(a) < Len(b) /\ a = SubSeq(b, 1, Len(a))
ExpiryNotAfter(a, b) == a = None \/ (b # None /\ a[1] <= b[1])
\* a may stand before b: (value, script bytes, CLTV expiry) of a is not
\* greater than that of b
MayPrecede(a, b) ==
    \/ AmountLess(a.value, b.value)
    \/ a.value = b.value /\ BytesLess(ScriptBytes(a.script), ScriptBytes(b.script))
    \/ /\ a.value = b.value
       /\ ScriptBytes(a.script) = ScriptBytes(b.script)
       /\ ExpiryNotAfter(a.cltv_expiry, b.cltv_expiry)
Occurrences(list, x) == Cardinality({i \in 1..Len(list) : list[i] = x})
IsBalanceMeta(out) ==
    out.script.program = "p2wpkh" \/ out.script.of.branch = "to_local"

C13_EveryHtlcOutputCarriesExpiry ==
    outcome = "built" =>
        LET htlcs == trimmed.offered \o trimmed.received
        IN  /\ Len(built.htlc_outputs) = Len(htlcs)
            /\ \A i \in 1..Len(htlcs) :
                   /\ built.htlc_outputs[i].value = htlcs[i].amount_sat
                   /\ built.htlc_outputs[i].cltv_expiry = Some(htlcs[i].cltv_expiry)

\* C14: the fee of a built commitment transaction is
\* feerate_per_kw * (724 + 172 * n) / 1000 rounded down, n being the number
\* of HTLCs that are not dust, which is the number of its HTLC outputs.
C14_FeeCountsUntrimmedHtlcs ==
    outcome = "built" =>
        LET n == Len(SelectSeq(chan.offered_htlcs, OfferedKept))
                     + Len(SelectSeq(chan.received_htlcs, ReceivedKept))
        IN  /\ built.fee = (chan.feerate_per_kw * (724 + (172 * n))) \div 1000
            /\ n = HtlcOutputCount("offered_htlc") + HtlcOutputCount("received_htlc")

\* of two HTLCs one is dust and one is kept, and the fee is not the fee
\* that counts them both
C14_Witness ==
    /\ outcome = "built"
    /\ Len(chan.offered_htlcs) + Len(chan.received_htlcs) = 2
    /\ Len(trimmed.offered) + Len(trimmed.received) = 1
    /\ built.fee # (chan.feerate_per_kw * (724 + (172 * 2))) \div 1000

\* C15: in a built commitment transaction the to_local output, when there is
\* one, has the u64 value to_local_value - fee, the to_remote output has
\* exactly to_remote_value, and each HTLC output has its HTLC's amount.
C15_FeeBorneByToLocalOnly ==
    outcome = "built" =>
        /\ \A i \in 1..Len(tx.output) :
               /\ IsToLocal(tx.output[i]) =>
                      /\ tx.output[i].value >= 0
                      /\ tx.output[i].value = ToLocalValue - built.fee
               /\ IsToRemote(tx.output[i]) => tx.output[i].value = ToRemoteValue
        /\ LET htlcs == trimmed.offered \o trimmed.received
           IN  \A i \in 1..Len(htlcs) : built.htlc_outputs[i].value = htlcs[i].amount_sat

-----------------------------------------------------------------------------
(* Per-commitment secrets: src/exercises/keys/channel_key_manager.rs        *)
(*                                                                         *)
(* A 32-byte buffer is the term that produced it: the seed, the bit flips   *)
(* made before each SHA-256 so far, and the flips made since the last one.  *)
(* Two buffers are equal exactly when their terms are (SHA-256 has no       *)
(* collisions and its values are unrelated to its arguments).               *)

SeedBuffer(seed) == [seed |-> seed, hashed |-> <<>>, flips |-> {}]

\* the bits of a byte counted from its most significant end
FlipBitMsbFirst(res, byte, bit) == [res EXCEPT !.flips = Xor(@, {(8 * byte) + (7 - bit)})]

\* res[byte] ^= 1 << bit
FlipBit(res, byte, bit) == [res EXCEPT !.flips = Xor(@, {(8 * byte) + bit})]

\* Sha256::hash(&res).to_byte_array()
Sha256(res) == [seed |-> res.seed, hashed |-> Append(res.hashed, res.flips), flips |-> {}]

RECURSIVE SecretLoopAscending(_, _, _)
SecretLoopAscending(res, commitment_number, i) ==
    IF i = 48 THEN res
    ELSE LET bitpos == i
         IN  IF bitpos \in commitment_number
             THEN SecretLoopAscending(Sha256(FlipBit(res, bitpos \div 8, bitpos % 8)),
                                      commitment_number, i + 1)
             ELSE SecretLoopAscending(res, commitment_number, i + 1)

\* the derivation scanning the bits of the index from bit 0 upwards
build_commitment_secret_ascending(seed, commitment_number) ==
    SecretLoopAscending(SeedBuffer(seed), commitment_number, 0)

RECURSIVE SecretLoop(_, _, _)
\* the rest of `for i in 0..48` from iteration i on
SecretLoop(res, commitment_number, i) ==
    IF i = 48 THEN res
    ELSE LET bitpos == 47 - i
         IN  IF bitpos \in commitment_number
             THEN SecretLoop(Sha256(FlipBit(res, bitpos \div 8, bitpos % 8)),
                             commitment_number, i + 1)
             ELSE SecretLoop(res, commitment_number, i + 1)

build_commitment_secret(seed, commitment_number) ==
    SecretLoop(SeedBuffer(seed), commitment_number, 0)

\* PublicKey::from_secret_key(SecretKey::from_slice(&secret))
derive_per_commitment_point(seed, commitment_number) ==
    [secret_key |-> build_commitment_secret(seed, commitment_number)]

Seeds == {"seed_a", "seed_b"}
\* bit positions from which the indices asked for are made up
IndexBits == {0, 1, 2, 24, 47}
\* indices within 48 bits, and 2^48, 2^48 + 1, 2^63 + 2
SecretIndices == (SUBSET IndexBits) \cup {{48}, {0, 48}, {1, 63}}

InitSecret ==
    /\ IdleTx
    /\ IdleVerify
    /\ IdleKeys
    /\ IdleFunding
    /\ IdleFactor
    /\ IdleSign
    /\ IdleWitness
    /\ IdleSort
    /\ commitment_seed \in Seeds
    /\ secret_request \in SecretIndices
    /\ secret = NoSecret
    /\ per_commitment_point = NoPoint
    /\ chain_steps = 0

BuildCommitmentSecret ==
    /\ secret = NoSecret
    /\ per_commitment_point = NoPoint
    /\ secret' = build_commitment_secret(commitment_seed, secret_request)
    /\ UNCHANGED <<txVars, verifyVars, keyVars, fundingVars, commitment_seed, secret_request,
                   per_commitment_point, chain_steps, factorVars, signVars, witnessVars, sortVars>>

DerivePerCommitmentPoint ==
    /\ secret = NoSecret
    /\ per_commitment_point = NoPoint
    /\ per_commitment_point' = derive_per_commitment_point(commitment_seed, secret_request)
    /\ UNCHANGED <<txVars, verifyVars, keyVars, fundingVars, commitment_seed, secret_request, secret, chain_steps, factorVars, signVars, witnessVars, sortVars>>

\* one step of the chain applied by whoever holds the buffer: flip a bit,
\* then SHA-256 (the body of the loop of build_commitment_secret)
FlipAndHash(bitpos) ==
    /\ secret # NoSecret
    /\ chain_steps < MaxChainSteps
    /\ secret' = Sha256(FlipBit(secret, bitpos \div 8, bitpos % 8))
    /\ chain_steps' = chain_steps + 1
    /\ UNCHANGED <<txVars, verifyVars, keyVars, fundingVars, commitment_seed, secret_request, per_commitment_point, factorVars, signVars, witnessVars, sortVars>>

NextSecret ==
    \/ BuildCommitmentSecret
    \/ DerivePerCommitmentPoint
    \/ \E bitpos \in IndexBits : FlipAndHash(bitpos)

SpecSecret == InitSecret /\ [][NextSecret]_vars

InRangeIndices == {j \in SecretIndices : InRange48(j)}

\* C4: an index >= 2^48 is rejected: neither a secret nor a point comes
\* back, and in particular never the secret of the index without its bits
\* above bit 47.
C4_OutOfRangeIndexRejected ==
    ~InRange48(secret_request) =>
        /\ per_commitment_point = NoPoint
        /\ secret = NoSecret
        /\ secret # build_commitment_secret(commitment_seed, And(secret_request, 0..47))

RECURSIVE BitsDescending(_)
\* the positions of the 1 bits of a word, highest first
BitsDescending(w) ==
    IF w = {} THEN <<>>
    ELSE LET top == CHOOSE b \in w : \A c \in w : c <= b
         IN  <<top>> \o BitsDescending(w \ {top})

\* C18: for an index below 2^48 build_commitment_secret returns the seed
\* taken through one flip-and-hash per 1 bit of the index, from the highest
\* such bit down to the lowest, the flip being of bit (bitpos mod 8) of byte
\* (bitpos / 8); for index 0 it is the seed unchanged.
C18_SecretIsFlipAndHashFromBit47Down ==
    (secret # NoSecret /\ chain_steps = 0 /\ InRange48(secret_request)) =>
        LET bits == BitsDescending(secret_request)
        IN  /\ secret.seed = commitment_seed
            /\ secret.flips = {}
            /\ Len(secret.hashed) = Cardinality(secret_request)
            /\ \A k \in 1..Len(bits) :
                   secret.hashed[k] = {(8 * (bits[k] \div 8)) + (bits[k] % 8)}
            /\ secret_request = {} => secret = SeedBuffer(commitment_seed)

\* the secret of an index with bits 47, 24 and 0 set has been built
C18_Witness ==
    /\ secret # NoSecret
    /\ chain_steps = 0
    /\ {0, 24, 47} \subseteq secret_request
    /\ InRange48(secret_request)
    /\ Len(secret.hashed) >= 3

\* C5: for i < j < 2^48 no sequence of flip-and-hash steps from the secret
\* of index i gives the secret of index j.
C5_HigherSecretNotObtainable ==
    (secret # NoSecret /\ InRange48(secret_request)) =>
        \A j \in InRangeIndices :
            WordLess(secret_request, j) =>
                secret # build_commitment_secret(commitment_seed, j)

\* j is i with more 1 bits, all of them below the lowest 1 bit of i
ExtendsBelowLowestBit(i, j) ==
    /\ i \subseteq j
    /\ \A b \in j \ i : \A c \in i : b < c

\* C5 as amended: flip-and-hash steps from the secret of index i give the
\* secret of an index j only if j is i with further 1 bits below the lowest
\* 1 bit of i (any j for i = 0); so they never give the secret of a lower
\* index, nor that of a higher index that differs from i above that bit.
C5_ObtainableOnlyBelowLowestBit ==
    (secret # NoSecret /\ InRange48(secret_request)) =>
        \A j \in InRangeIndices :
            secret = build_commitment_secret(commitment_seed, j) =>
                /\ ExtendsBelowLowestBit(secret_request, j)
                /\ ~WordLess(j, secret_request)

\* two steps from the secret of a non-zero index have given the secret of
\* a higher index
C5_Witness ==
    /\ chain_steps = 2
    /\ secret_request # {}
    /\ InRange48(secret_request)
    /\ \E j \in InRangeIndices :
        /\ WordLess(secret_request, j)
        /\ secret = build_commitment_secret(commitment_seed, j)

-----------------------------------------------------------------------------
(* Signature verification: src/exercises/signing.rs                         *)
(*                                                                         *)
(* A byte string is a sequence of tokens: [byte |-> b] is one byte, and     *)
(* [der |-> sig] is the DER encoding of the ECDSA signature sig, which is   *)
(* the pair of its signer's secret key and the digest signed.               *)

SIGHASH_ALL == 1

\* SighashCache::p2wsh_signature_hash: an error for an input that the
\* transaction does not have
p2wsh_signature_hash(t, input_index, script, amount) ==
    IF input_index >= Len(t.input) THEN [err |-> TRUE]
    ELSE [err |-> FALSE,
          digest |-> [tx |-> t, input_index |-> input_index, script |-> script,
                      amount |-> amount, sighash_type |-> SIGHASH_ALL]]

PublicKeyOf(secret_key) == [public_key_of |-> secret_key]

sign_ecdsa(digest, secret_key) == [signer |-> secret_key, digest |-> digest]

serialize_der(sig) == <<[der |-> sig]>>

\* Signature::from_der: Ok for exactly the DER encoding of one signature
from_der(bytes) ==
    IF Len(bytes) = 1 /\ "der" \in DOMAIN bytes[1]
    THEN [err |-> FALSE, sig |-> bytes[1].der]
    ELSE [err |-> TRUE]

verify_ecdsa(digest, sig, pubkey) ==
    sig.digest = digest /\ PublicKeyOf(sig.signer) = pubkey

\* the DER signature returned without the sighash type pushed onto it
sign_transaction_input_der_only(t, input_index, script, amount, secret_key) ==
    LET sighash == p2wsh_signature_hash(t, input_index, script, amount)
    IN  IF sighash.err THEN [panic |-> TRUE]
        ELSE [panic |-> FALSE,
              sig_bytes |-> serialize_der(sign_ecdsa(sighash.digest, secret_key))]

sign_transaction_input(t, input_index, script, amount, secret_key) ==
    LET sighash == p2wsh_signature_hash(t, input_index, script, amount)
    IN  IF sighash.err THEN [panic |-> TRUE]
        ELSE [panic |-> FALSE,
              sig_bytes |-> Append(serialize_der(sign_ecdsa(sighash.digest, secret_key)),
                                   [byte |-> SIGHASH_ALL])]

\* "true", "false", or "panic" where an expect fails or the slice
\* signature[..signature.len() - 1] is out of range (for an empty signature
\* the subtraction overflows; where it wraps instead, the slice end is past
\* the end of the signature)
verify_signature(t, input_index, script, amount, signature, pubkey) ==
    LET sighash == p2wsh_signature_hash(t, input_index, script, amount)
    IN  IF sighash.err THEN "panic"
        ELSE IF Len(signature) = 0 THEN "panic"
        ELSE LET sig_slice == SubSeq(signature, 1, Len(signature) - 1)
                 sig == from_der(sig_slice)
             IN  IF sig.err THEN "panic"
                 ELSE IF verify_ecdsa(sighash.digest, sig.sig, pubkey) THEN "true"
                 ELSE "false"

SecretKeys == {"local_funding_key", "remote_funding_key"}
SignedAmounts == {5, 6}
SignedScripts == {"funding_script", "htlc_script"}

\* the signature made for the call's own arguments by signer, for another
\* amount by the same signer, and byte strings that are no signature
SignatureInputs(t, script, amount, signer) ==
    LET good == sign_transaction_input(t, 0, script, amount, signer).sig_bytes
        other == sign_transaction_input(t, 0, script, amount + 1, signer).sig_bytes
    IN  {good, other,
         <<>>,
         <<[byte |-> SIGHASH_ALL]>>,
         <<[byte |-> 48], [byte |-> SIGHASH_ALL]>>,
         SubSeq(good, 1, 1),
         Append(good, [byte |-> SIGHASH_ALL])}

InitVerify ==
    /\ IdleTx
    /\ IdleSecret
    /\ IdleKeys
    /\ IdleFunding
    /\ IdleFactor
    /\ IdleSign
    /\ IdleWitness
    /\ IdleSort
    /\ \E input_index \in {0, 1}, script \in SignedScripts, amount \in SignedAmounts,
          signer \in SecretKeys, verifier \in SecretKeys :
          \E signature \in SignatureInputs(OneInputTransaction, script, amount, signer) :
              verify_call = [tx |-> OneInputTransaction, input_index |-> input_index,
                             script |-> script, amount |-> amount,
                             signature |-> signature, pubkey |-> PublicKeyOf(verifier)]
    /\ verify_result = "none"

VerifySignature ==
    /\ verify_result = "none"
    /\ verify_result' = verify_signature(verify_call.tx, verify_call.input_index,
                            verify_call.script, verify_call.amount,
                            verify_call.signature, verify_call.pubkey)
    /\ UNCHANGED <<txVars, secretVars, verify_call, keyVars, fundingVars, factorVars, signVars, witnessVars, sortVars>>

NextVerify == VerifySignature

SpecVerify == InitVerify /\ [][NextVerify]_vars

\* C10: for no signature does verify_signature abort: on an input that the
\* transaction has, every call comes back with true or false (or an error),
\* also for an empty signature or one that is not DER before its last byte.
C10_MalformedSignatureReported ==
    (verify_result # "none" /\ verify_call.input_index < Len(verify_call.tx.input)) =>
        verify_result # "panic"

-----------------------------------------------------------------------------
(* Key derivation: src/exercises/keys/commitment.rs                         *)
(*                                                                         *)
(* The curve is a cyclic group of GroupOrder elements.  A secret key is a   *)
(* scalar 1..GroupOrder-1 and a point is the number k of k * P0 for a fixed *)
(* point P0; 0 is the point at infinity, which is no PublicKey.  The        *)
(* generator G is (GroupOrder - 1) * P0.  SHA-256 of two serialized points  *)
(* is a scalar drawn per ordered pair; digests that are no valid scalar     *)
(* have negligible probability and are left out.                            *)

GroupOrder == 5
Generator == GroupOrder - 1
Scalars == 1..(GroupOrder - 1)

Ok(key) == [panic |-> FALSE, key |-> key]
Panic == [panic |-> TRUE]

\* PublicKey::from_secret_key: secret_key * G
from_secret_key(secret_key) == (secret_key * Generator) % GroupOrder

\* Sha256 of first.serialize() followed by second.serialize()
sha256_of_points(first, second) == sha_scalar[<<first, second>>]

\* SecretKey::mul_tweak and PublicKey::mul_tweak: an error for a zero tweak
\* or an invalid result
mul_tweak(key, tweak) ==
    IF tweak = 0 \/ (key * tweak) % GroupOrder = 0 THEN Panic
    ELSE Ok((key * tweak) % GroupOrder)

\* SecretKey::add_tweak: an error when the sum is zero
add_tweak(key, tweak) ==
    IF (key + tweak) % GroupOrder = 0 THEN Panic ELSE Ok((key + tweak) % GroupOrder)

\* PublicKey::combine: an error when the sum is the point at infinity
combine(point, other) ==
    IF (point + other) % GroupOrder = 0 THEN Panic ELSE Ok((point + other) % GroupOrder)

\* the hash taken with the basepoint first
derive_public_key_basepoint_first(basepoint, commitment_point) ==
    LET res == sha256_of_points(basepoint, commitment_point)
        hashkey == from_secret_key(res)
    IN  combine(basepoint, hashkey)

derive_public_key(basepoint, commitment_point) ==
    LET res == sha256_of_points(commitment_point, basepoint)
        hashkey == from_secret_key(res)
    IN  combine(basepoint, hashkey)

derive_private_key(base_secret, commitment_point) ==
    LET basepoint == from_secret_key(base_secret)
        res == sha256_of_points(commitment_point, basepoint)
    IN  add_tweak(base_secret, res)

\* both components multiplied by the first hash
derive_revocation_public_key_one_hash(revocation_basepoint, commitment_point) ==
    LET scalar1 == sha256_of_points(revocation_basepoint, commitment_point)
        component1 == mul_tweak(revocation_basepoint, scalar1)
        component2 == mul_tweak(commitment_point, scalar1)
    IN  IF component1.panic \/ component2.panic THEN Panic
        ELSE combine(component1.key, component2.key)

derive_revocation_public_key(revocation_basepoint, commitment_point) ==
    LET scalar1 == sha256_of_points(revocation_basepoint, commitment_point)
        component1 == mul_tweak(revocation_basepoint, scalar1)
        scalar2 == sha256_of_points(commitment_point, revocation_basepoint)
        component2 == mul_tweak(commitment_point, scalar2)
    IN  IF component1.panic \/ component2.panic THEN Panic
        ELSE combine(component1.key, component2.key)

derive_revocation_private_key(revocation_basepoint_secret, per_commitment_secret) ==
    LET revocation_basepoint == from_secret_key(revocation_basepoint_secret)
        commitment_point == from_secret_key(per_commitment_secret)
        scalar1 == sha256_of_points(revocation_basepoint, commitment_point)
        key1 == mul_tweak(revocation_basepoint_secret, scalar1)
        scalar2 == sha256_of_points(commitment_point, revocation_basepoint)
        key2 == mul_tweak(per_commitment_secret, scalar2)
    IN  IF key1.panic \/ key2.panic THEN Panic
        ELSE add_tweak(key1.key, key2.key)

BasePoint == from_secret_key(key_call.base_secret)
PerCommitmentPoint == from_secret_key(key_call.per_commitment_secret)

InitKeys ==
    /\ IdleTx
    /\ IdleSecret
    /\ IdleVerify
    /\ IdleFunding
    /\ IdleFactor
    /\ IdleSign
    /\ IdleWitness
    /\ IdleSort
    /\ key_call \in [base_secret : Scalars, per_commitment_secret : Scalars]
    /\ sha_scalar \in [{<<BasePoint, PerCommitmentPoint>>, <<PerCommitmentPoint, BasePoint>>}
                          -> Scalars]
    /\ derived = NoDerived

Called(result) == [called |-> TRUE, result |-> result]

DeriveRevocationPrivateKey ==
    /\ ~derived.revocation_private.called
    /\ derived' = [derived EXCEPT !.revocation_private =
           Called(derive_revocation_private_key(key_call.base_secret,
                                                key_call.per_commitment_secret))]
    /\ UNCHANGED <<txVars, secretVars, verifyVars, fundingVars, key_call, sha_scalar, factorVars, signVars, witnessVars, sortVars>>

DeriveRevocationPublicKey ==
    /\ ~derived.revocation_public.called
    /\ derived' = [derived EXCEPT !.revocation_public =
           Called(derive_revocation_public_key(BasePoint, PerCommitmentPoint))]
    /\ UNCHANGED <<txVars, secretVars, verifyVars, fundingVars, key_call, sha_scalar, factorVars, signVars, witnessVars, sortVars>>

DerivePrivateKey ==
    /\ ~derived.private.called
    /\ derived' = [derived EXCEPT !.private =
           Called(derive_private_key(key_call.base_secret, PerCommitmentPoint))]
    /\ UNCHANGED <<txVars, secretVars, verifyVars, fundingVars, key_call, sha_scalar, factorVars, signVars, witnessVars, sortVars>>

DerivePublicKey ==
    /\ ~derived.public.called
    /\ derived' = [derived EXCEPT !.public =
           Called(derive_public_key(BasePoint, PerCommitmentPoint))]
    /\ UNCHANGED <<txVars, secretVars, verifyVars, fundingVars, key_call, sha_scalar, factorVars, signVars, witnessVars, sortVars>>

NextKeys ==
    \/ DeriveRevocationPrivateKey
    \/ DeriveRevocationPublicKey
    \/ DerivePrivateKey
    \/ DerivePublicKey

SpecKeys == InitKeys /\ [][NextKeys]_vars

\* the public key of a derived secret key, where the derivation gave one
PublicOf(result) == IF result.panic THEN Panic ELSE Ok(from_secret_key(result.key))

\* C16: the public key of derive_revocation_private_key(b, c) is
\* derive_revocation_public_key(pubkey(b), pubkey(c)) for all secrets b and
\* c, and the one derivation fails exactly when the other does.
C16_RevocationSymmetry ==
    (derived.revocation_private.called /\ derived.revocation_public.called) =>
        PublicOf(derived.revocation_private.result) = derived.revocation_public.result

\* both revocation keys derived from two different secrets whose two
\* hashes differ
C16_Witness ==
    /\ derived.revocation_private.called
    /\ derived.revocation_public.called
    /\ ~derived.revocation_public.result.panic
    /\ key_call.base_secret # key_call.per_commitment_secret
    /\ sha_scalar[<<BasePoint, PerCommitmentPoint>>] # sha_scalar[<<PerCommitmentPoint, BasePoint>>]

\* C17: the public key of derive_private_key(s, P) is
\* derive_public_key(pubkey(s), P), both adding the scalar
\* SHA256(P || pubkey(s)) with the per-commitment point first.
C17_PrivateMatchesPublic ==
    /\ (derived.private.called /\ derived.public.called) =>
           PublicOf(derived.private.result) = derived.public.result
    /\ (derived.private.called /\ ~derived.private.result.panic) =>
           derived.private.result.key
               = (key_call.base_secret + sha_scalar[<<PerCommitmentPoint, BasePoint>>])
                     % GroupOrder
    /\ (derived.public.called /\ ~derived.public.result.panic) =>
           derived.public.result.key
               = (BasePoint + (sha_scalar[<<PerCommitmentPoint, BasePoint>>] * Generator))
                     % GroupOrder

\* both keys derived where the hash with the basepoint first is another
C17_Witness ==
    /\ derived.private.called
    /\ derived.public.called
    /\ ~derived.public.result.panic
    /\ sha_scalar[<<BasePoint, PerCommitmentPoint>>] # sha_scalar[<<PerCommitmentPoint, BasePoint>>]

-----------------------------------------------------------------------------
(* Funding script: src/exercises/scripts/funding.rs                         *)
(*                                                                         *)
(* A funding key is its compressed serialization, here the parity byte and  *)
(* two bytes for the x coordinate.                                          *)

FundingPubkeys == {<<parity, hi, lo>> : parity \in {2, 3}, hi \in {14, 61}, lo \in {0, 255}}

\* the larger key pushed first
create_funding_script_larger_first(pubkey1, pubkey2) ==
    LET lesser_first == SeqCmp(pubkey1, pubkey2) < 0
        pubkey_lesser == IF lesser_first THEN pubkey1 ELSE pubkey2
        pubkey_larger == IF lesser_first THEN pubkey2 ELSE pubkey1
    IN  <<[int |-> 2], [key |-> pubkey_larger], [key |-> pubkey_lesser], [int |-> 2],
          [opcode |-> "OP_CHECKMULTISIG"]>>

create_funding_script(pubkey1, pubkey2) ==
    LET lesser_first == SeqCmp(pubkey1, pubkey2) < 0
        pubkey_lesser == IF lesser_first THEN pubkey1 ELSE pubkey2
        pubkey_larger == IF lesser_first THEN pubkey2 ELSE pubkey1
    IN  <<[int |-> 2], [key |-> pubkey_lesser], [key |-> pubkey_larger], [int |-> 2],
          [opcode |-> "OP_CHECKMULTISIG"]>>

InitFunding ==
    /\ IdleTx
    /\ IdleSecret
    /\ IdleVerify
    /\ IdleKeys
    /\ IdleFactor
    /\ IdleSign
    /\ IdleWitness
    /\ IdleSort
    /\ funding_keys \in FundingPubkeys \X FundingPubkeys
    /\ funding_script = NoScripts

\* create_funding_script(a, b)
CreateFundingScript ==
    /\ ~funding_script.forward.called
    /\ funding_script' = [funding_script EXCEPT !.forward =
           Called(create_funding_script(funding_keys[1], funding_keys[2]))]
    /\ UNCHANGED <<txVars, secretVars, verifyVars, keyVars, funding_keys, factorVars, signVars, witnessVars, sortVars>>

\* create_funding_script(b, a)
CreateFundingScriptSwapped ==
    /\ ~funding_script.swapped.called
    /\ funding_script' = [funding_script EXCEPT !.swapped =
           Called(create_funding_script(funding_keys[2], funding_keys[1]))]
    /\ UNCHANGED <<txVars, secretVars, verifyVars, keyVars, funding_keys, factorVars, signVars, witnessVars, sortVars>>

NextFunding ==
    \/ CreateFundingScript
    \/ CreateFundingScriptSwapped

SpecFunding == InitFunding /\ [][NextFunding]_vars

\* C19: create_funding_script(a, b) and create_funding_script(b, a) are the
\* same script, and in it the first key is not lexicographically greater
\* than the second and the two are a and b.
C19_FundingScriptIgnoresArgumentOrder ==
    /\ (funding_script.forward.called /\ funding_script.swapped.called) =>
           funding_script.forward.result = funding_script.swapped.result
    /\ \A call \in {funding_script.forward, funding_script.swapped} :
           call.called =>
               /\ ~BytesLess(call.result[3].key, call.result[2].key)
               /\ {call.result[2].key, call.result[3].key}
                      = {funding_keys[1], funding_keys[2]}

\* both orders called with the greater key passed first
C19_Witness ==
    /\ funding_script.forward.called
    /\ funding_script.swapped.called
    /\ BytesLess(funding_keys[2], funding_keys[1])
    /\ funding_script.forward.result[2].key = funding_keys[2]

-----------------------------------------------------------------------------
(* get_commitment_transaction_number_obscure_factor on its own (SpecFactor) *)

\* digests with and without bits above the last six bytes
Digests == ObscureFactors \cup {Or(Word48(1, 2), {48, 100, 255}), {63, 64, 200}}

InitFactor ==
    /\ IdleSecret
    /\ IdleVerify
    /\ IdleKeys
    /\ IdleFunding
    /\ IdleSign
    /\ IdleWitness
    /\ IdleSort
    /\ overflow_checks = FALSE
    /\ chan = [none |-> TRUE]
    /\ sha_digest \in [PaymentBasepoints \X PaymentBasepoints -> Digests]
    /\ tx = NoTx
    /\ outcome = "none"
    /\ trimmed = [offered |-> <<>>, received |-> <<>>]
    /\ built = NoBuild
    /\ htlc_tx = NoTx
    /\ htlc_call = [kind |-> "none"]
    /\ factor_call \in [a : PaymentBasepoints, b : PaymentBasepoints]
    /\ obscure_factor = NoFactors

\* get_commitment_transaction_number_obscure_factor(a, b, true)
GetObscureFactor ==
    /\ ~obscure_factor.forward.called
    /\ obscure_factor' = [obscure_factor EXCEPT !.forward =
           Called(get_commitment_transaction_number_obscure_factor(
                      factor_call.a, factor_call.b, TRUE))]
    /\ UNCHANGED <<txVars, secretVars, verifyVars, keyVars, fundingVars, factor_call, signVars, witnessVars, sortVars>>

\* get_commitment_transaction_number_obscure_factor(b, a, false)
GetObscureFactorMirrored ==
    /\ ~obscure_factor.mirrored.called
    /\ obscure_factor' = [obscure_factor EXCEPT !.mirrored =
           Called(get_commitment_transaction_number_obscure_factor(
                      factor_call.b, factor_call.a, FALSE))]
    /\ UNCHANGED <<txVars, secretVars, verifyVars, keyVars, fundingVars, factor_call, signVars, witnessVars, sortVars>>

NextFactor ==
    \/ GetObscureFactor
    \/ GetObscureFactorMirrored

SpecFactor == InitFactor /\ [][NextFactor]_vars

\* C29: get_commitment_transaction_number_obscure_factor(A, B, true) and
\* get_commitment_transaction_number_obscure_factor(B, A, false) are the same
\* number for all payment basepoints A and B, and every factor returned is
\* below 2^48.
C29_ObscureFactorMirrorSymmetric ==
    /\ (obscure_factor.forward.called /\ obscure_factor.mirrored.called) =>
           obscure_factor.forward.result = obscure_factor.mirrored.result
    /\ \A call \in {obscure_factor.forward, obscure_factor.mirrored} :
           call.called => ~WordLess(INITIAL_COMMITMENT_NUMBER, call.result)

\* both directions asked for two different basepoints whose two hashes
\* differ, the one used having bits above its last six bytes
C29_Witness ==
    /\ obscure_factor.forward.called
    /\ obscure_factor.mirrored.called
    /\ factor_call.a # factor_call.b
    /\ sha_digest[<<factor_call.a, factor_call.b>>] # sha_digest[<<factor_call.b, factor_call.a>>]
    /\ \E bit \in sha_digest[<<factor_call.a, factor_call.b>>] : bit >= 48
    /\ obscure_factor.forward.result # {}

-----------------------------------------------------------------------------
(* sort_outputs on its own (SpecSort), on lists of OutputWithMetadata       *)

\* a key-hash output script and the script of an offered HTLC
SortScripts ==
    {create_to_remote_script("remote_payment_basepoint"),
     to_p2wsh(create_offered_htlc_script(TestCommitmentKeys.revocation_key,
         TestCommitmentKeys.local_htlc_key, TestCommitmentKeys.remote_htlc_key, 1))}

OutputsWithMetadata ==
    [value : {1, 2}, script : SortScripts, cltv_expiry : {None, Some(500), Some(501)}]

InitSort ==
    /\ IdleTx
    /\ IdleSecret
    /\ IdleVerify
    /\ IdleKeys
    /\ IdleFunding
    /\ IdleFactor
    /\ IdleSign
    /\ IdleWitness
    /\ sort_input \in SeqsUpTo(OutputsWithMetadata, MaxSortLen)
    /\ sort_result = NoSorted

\* sort_outputs(&mut outputs)
SortOutputs ==
    /\ ~sort_result.once.called
    /\ sort_result' = [sort_result EXCEPT !.once = Called(sort_outputs(sort_input))]
    /\ UNCHANGED <<txVars, secretVars, verifyVars, keyVars, fundingVars, factorVars, signVars, witnessVars, sort_input>>

\* sort_outputs(&mut outputs) on the list it has sorted
SortOutputsAgain ==
    /\ sort_result.once.called
    /\ ~sort_result.twice.called
    /\ sort_result' = [sort_result EXCEPT !.twice = Called(sort_outputs(sort_result.once.result))]
    /\ UNCHANGED <<txVars, secretVars, verifyVars, keyVars, fundingVars, factorVars, signVars, witnessVars, sort_input>>

NextSort ==
    \/ SortOutputs
    \/ SortOutputsAgain

SpecSort == InitSort /\ [][NextSort]_vars

\* C25: sort_outputs returns a permutation of its input (every entry as
\* often as in the input, none added or lost), and sorting the sorted list
\* again leaves it as it is, also for entries with equal values, equal
\* scripts and equal or absent CLTV expiries.
C25_SortIsIdempotentPermutation ==
    /\ sort_result.once.called =>
           /\ Len(sort_result.once.result) = Len(sort_input)
           /\ \A out \in OutputsWithMetadata :
                  Occurrences(sort_result.once.result, out) = Occurrences(sort_input, out)
    /\ sort_result.twice.called => sort_result.twice.result = sort_result.once.result

\* a list sorted twice that was not in order, with one entry twice and with
\* two entries of equal value and script of which one has no expiry
C25_Witness ==
    /\ sort_result.twice.called
    /\ sort_result.once.result # sort_input
    /\ \E i, j \in 1..Len(sort_input) : i # j /\ sort_input[i] = sort_input[j]
    /\ \E i, j \in 1..Len(sort_input) :
           /\ sort_input[i].value = sort_input[j].value
           /\ sort_input[i].script = sort_input[j].script
           /\ sort_input[i].cltv_expiry = None
           /\ sort_input[j].cltv_expiry # None

-----------------------------------------------------------------------------
(* sign_transaction_input and verify_signature together (SpecSign):         *)
(* src/exercises/signing.rs, as test_07_sign_transaction_input uses them    *)

\* a second transaction, with two inputs and another lock time
TwoInputTransaction ==
    [version |-> 2,
     lock_time |-> BitsOf(500),
     input |-> <<[previous_output |-> [txid |-> "all_zeros", vout |-> 0],
                  script_sig |-> <<>>, sequence |-> {}, witness |-> <<>>],
                 [previous_output |-> [txid |-> "all_zeros", vout |-> 1],
                  script_sig |-> <<>>, sequence |-> {}, witness |-> <<>>]>>,
     output |-> <<>>]

SignedTransactions == {OneInputTransaction, TwoInputTransaction}

InitSign ==
    /\ IdleTx
    /\ IdleSecret
    /\ IdleKeys
    /\ IdleFunding
    /\ IdleFactor
    /\ IdleWitness
    /\ IdleSort
    /\ sign_call \in [tx : SignedTransactions, input_index : {0, 1}, script : SignedScripts,
                      amount : SignedAmounts, secret_key : SecretKeys]
    /\ signed = NotCalled
    /\ verify_call \in [tx : SignedTransactions, input_index : {0, 1}, script : SignedScripts,
                        amount : SignedAmounts, pubkey : {PublicKeyOf(k) : k \in SecretKeys}]
    /\ verify_result = "none"

\* sign_transaction_input; an expect that fails leaves nothing returned
SignTransactionInput ==
    /\ ~signed.called
    /\ signed' = Called(sign_transaction_input(sign_call.tx, sign_call.input_index,
                             sign_call.script, sign_call.amount, sign_call.secret_key))
    /\ UNCHANGED <<txVars, secretVars, verifyVars, keyVars, fundingVars, factorVars, sign_call, witnessVars, sortVars>>

\* verify_signature on the signature that sign_transaction_input returned
VerifyReturnedSignature ==
    /\ signed.called
    /\ ~signed.result.panic
    /\ verify_result = "none"
    /\ verify_result' = verify_signature(verify_call.tx, verify_call.input_index,
                            verify_call.script, verify_call.amount,
                            signed.result.sig_bytes, verify_call.pubkey)
    /\ UNCHANGED <<txVars, secretVars, verify_call, keyVars, fundingVars, factorVars, signVars, witnessVars, sortVars>>

NextSign ==
    \/ SignTransactionInput
    \/ VerifyReturnedSignature

SpecSign == InitSign /\ [][NextSign]_vars

VerifiesWhatWasSigned ==
    /\ verify_call.tx = sign_call.tx
    /\ verify_call.input_index = sign_call.input_index
    /\ verify_call.script = sign_call.script
    /\ verify_call.amount = sign_call.amount

-----------------------------------------------------------------------------
(* Witness assembly (SpecWitness): src/exercises/signing.rs,                *)
(* src/exercises/transactions/commitment.rs and                             *)
(* src/solutions/transactions/htlc.rs                                       *)
(*                                                                         *)
(* A witness is the sequence of its elements; an element is a sequence of  *)
(* bytes (<<>> the empty element) or, for the last one, the witness script. *)

\* ChannelKeyManager::sign_transaction_input_sighash_all
sign_transaction_input_sighash_all(t, input_index, script, amount, secret_key) ==
    LET sighash == p2wsh_signature_hash(t, input_index, script, amount)
    IN  IF sighash.err THEN [panic |-> TRUE]
        ELSE [panic |-> FALSE,
              sig_bytes |-> Append(serialize_der(sign_ecdsa(sighash.digest, secret_key)),
                                   [byte |-> SIGHASH_ALL])]

\* the stack without the empty element that CHECKMULTISIG consumes
create_commitment_witness_no_placeholder(t, funding_script_buf, funding_amount, local_funding_key, remote_funding_signature) ==
    LET local_sig == sign_transaction_input(t, 0, funding_script_buf, funding_amount,
                                            local_funding_key)
    IN  IF local_sig.panic THEN [panic |-> TRUE]
        ELSE [panic |-> FALSE,
              stack |-> <<local_sig.sig_bytes, remote_funding_signature, funding_script_buf>>]

\* signing.rs: signs input 0 with the local funding key
create_commitment_witness(t, funding_script_buf, funding_amount, local_funding_key, remote_funding_signature) ==
    LET local_sig == sign_transaction_input(t, 0, funding_script_buf, funding_amount,
                                            local_funding_key)
    IN  IF local_sig.panic THEN [panic |-> TRUE]
        ELSE [panic |-> FALSE,
              stack |-> <<<<>>, local_sig.sig_bytes, remote_funding_signature,
                          funding_script_buf>>]

\* transactions/commitment.rs: both signatures handed in by the caller
transactions_create_commitment_witness(t, funding_script_buf, funding_amount, local_funding_signature, remote_funding_signature) ==
    <<<<>>, local_funding_signature, remote_funding_signature, funding_script_buf>>

create_htlc_success_witness(remote_htlc_signature, local_htlc_signature, payment_preimage, htlc_script) ==
    <<<<>>, remote_htlc_signature, local_htlc_signature, payment_preimage, htlc_script>>

create_htlc_timeout_witness(remote_htlc_signature, local_htlc_signature, htlc_script) ==
    <<<<>>, remote_htlc_signature, local_htlc_signature, <<>>, htlc_script>>

\* the witness put on the first input whatever input_index is
finalize_htlc_timeout_first_input(keys_manager, t, input_index, htlc_script, htlc_amount, remote_htlc_signature) ==
    LET local_htlc_privkey == keys_manager.htlc_basepoint_secret
        local_htlc_signature == sign_transaction_input_sighash_all(t, input_index,
                                    htlc_script, htlc_amount, local_htlc_privkey)
    IN  IF local_htlc_signature.panic THEN [panic |-> TRUE]
        ELSE [panic |-> FALSE,
              tx |-> [t EXCEPT !.input[1].witness =
                         <<<<>>, remote_htlc_signature, local_htlc_signature.sig_bytes,
                           <<>>, htlc_script>>]]

finalize_htlc_timeout(keys_manager, t, input_index, htlc_script, htlc_amount, remote_htlc_signature) ==
    LET local_htlc_privkey == keys_manager.htlc_basepoint_secret
        local_htlc_signature == sign_transaction_input_sighash_all(t, input_index,
                                    htlc_script, htlc_amount, local_htlc_privkey)
    IN  IF local_htlc_signature.panic THEN [panic |-> TRUE]
        ELSE [panic |-> FALSE,
              tx |-> [t EXCEPT !.input[input_index + 1].witness =
                         <<<<>>, remote_htlc_signature, local_htlc_signature.sig_bytes,
                           <<>>, htlc_script>>]]

finalize_htlc_success(keys_manager, t, input_index, htlc_script, htlc_amount, remote_htlc_signature, payment_preimage) ==
    LET local_htlc_privkey == keys_manager.htlc_basepoint_secret
        local_htlc_signature == sign_transaction_input_sighash_all(t, input_index,
                                    htlc_script, htlc_amount, local_htlc_privkey)
    IN  IF local_htlc_signature.panic THEN [panic |-> TRUE]
        ELSE [panic |-> FALSE,
              tx |-> [t EXCEPT !.input[input_index + 1].witness =
                         <<<<>>, remote_htlc_signature, local_htlc_signature.sig_bytes,
                           payment_preimage, htlc_script>>]]

\* CommitmentKeys::from_basepoints; each derivation is unwrapped
from_basepoints(commitment_point, local_delayed_payment_basepoint, local_htlc_basepoint, remote_revocation_basepoint, remote_htlc_basepoint) ==
    LET revocation_key == derive_revocation_public_key(remote_revocation_basepoint,
                                                       commitment_point)
        local_delayed_payment_key == derive_public_key(local_delayed_payment_basepoint,
                                                       commitment_point)
        local_htlc_key == derive_public_key(local_htlc_basepoint, commitment_point)
        remote_htlc_key == derive_public_key(remote_htlc_basepoint, commitment_point)
    IN  IF \/ revocation_key.panic
           \/ local_delayed_payment_key.panic
           \/ local_htlc_key.panic
           \/ remote_htlc_key.panic
        THEN [panic |-> TRUE]
        ELSE [panic |-> FALSE,
              keys |-> [per_commitment_point |-> commitment_point,
                        revocation_key |-> revocation_key.key,
                        local_htlc_key |-> local_htlc_key.key,
                        remote_htlc_key |-> remote_htlc_key.key,
                        local_delayed_payment_key |-> local_delayed_payment_key.key]]

\* SHA256 of two serialized points as a scalar: one table per h
HashTable(h) ==
    [pair \in (0..(GroupOrder - 1)) \X (0..(GroupOrder - 1)) |->
        (((2 * pair[1]) + (3 * pair[2]) + h) % (GroupOrder - 1)) + 1]

WitnessFundingPubkeys == {<<2, 14, 0>>, <<3, 14, 0>>}
PaymentPreimage == [i \in 1..32 |-> [byte |-> 2]]
RemoteRevocationBasepointSecret == 1
RemoteHtlcBasepointSecret == 2
LocalDelayedPaymentBasepointSecret == 3

\* a second input, which has its witness already
WithExtraInput(t) ==
    [t EXCEPT !.input = Append(@, [previous_output |-> [txid |-> "commitment_txid", vout |-> 1],
                                  script_sig |-> <<>>, sequence |-> {},
                                  witness |-> <<<<[byte |-> 7]>>>>])]

\* what the caller of the witness builders holds, set up as
\* interactive/htlc_timeout.rs and main.rs do: the funding script of the two
\* funding keys, the remote party's signatures, the commitment keys derived
\* from the basepoints, the two HTLC scripts and the unsigned transactions
WitnessScenario(local_funding_pubkey, remote_funding_pubkey, local_sig_first, htlc_basepoint_secret, commitment_point, extra_input, input_index) ==
    LET script_of_funding == create_funding_script(local_funding_pubkey, remote_funding_pubkey)
        commitment_keys == from_basepoints(commitment_point,
                               from_secret_key(LocalDelayedPaymentBasepointSecret),
                               from_secret_key(htlc_basepoint_secret),
                               from_secret_key(RemoteRevocationBasepointSecret),
                               from_secret_key(RemoteHtlcBasepointSecret)).keys
        remote_htlc_secret == derive_private_key(RemoteHtlcBasepointSecret, commitment_point).key
        offered_htlc_script == create_offered_htlc_script(commitment_keys.revocation_key,
                                   commitment_keys.local_htlc_key,
                                   commitment_keys.remote_htlc_key, 1)
        received_htlc_script == create_received_htlc_script(commitment_keys.revocation_key,
                                    commitment_keys.local_htlc_key,
                                    commitment_keys.remote_htlc_key, 1, 500)
        timeout_tx == create_htlc_timeout_transaction(
                          [txid |-> "commitment_txid", vout |-> 0], 4, 500,
                          commitment_keys, 144, 3)
        success_tx == create_htlc_success_transaction(
                          [txid |-> "commitment_txid", vout |-> 0], 4,
                          commitment_keys, 144, 3)
        htlc_timeout_tx == IF extra_input THEN WithExtraInput(timeout_tx) ELSE timeout_tx
        htlc_success_tx == IF extra_input THEN WithExtraInput(success_tx) ELSE success_tx
    IN  [keys_manager |-> [funding_key |-> "local_funding_key",
                           htlc_basepoint_secret |-> htlc_basepoint_secret,
                           delayed_payment_basepoint_secret |->
                               LocalDelayedPaymentBasepointSecret],
         local_funding_pubkey |-> local_funding_pubkey,
         remote_funding_pubkey |-> remote_funding_pubkey,
         local_sig_first |-> local_sig_first,
         funding_script |-> script_of_funding,
         funding_amount |-> 5,
         commitment_tx |-> OneInputTransaction,
         remote_funding_signature |->
             sign_transaction_input(OneInputTransaction, 0, script_of_funding, 5,
                                    "remote_funding_key").sig_bytes,
         per_commitment_point |-> commitment_point,
         commitment_keys |-> commitment_keys,
         offered_htlc_script |-> offered_htlc_script,
         received_htlc_script |-> received_htlc_script,
         htlc_amount |-> 4,
         payment_preimage |-> PaymentPreimage,
         input_index |-> input_index,
         htlc_timeout_tx |-> htlc_timeout_tx,
         htlc_success_tx |-> htlc_success_tx,
         remote_htlc_secret |-> remote_htlc_secret,
         remote_htlc_timeout_signature |->
             sign_transaction_input_sighash_all(htlc_timeout_tx, 0, offered_htlc_script, 4,
                                                remote_htlc_secret).sig_bytes,
         remote_htlc_success_signature |->
             sign_transaction_input_sighash_all(htlc_success_tx, 0, received_htlc_script, 4,
                                                remote_htlc_secret).sig_bytes]

InitWitness ==
    /\ IdleTx
    /\ IdleSecret
    /\ IdleVerify
    /\ IdleFunding
    /\ IdleFactor
    /\ IdleSign
    /\ IdleSort
    /\ key_call = [none |-> TRUE]
    /\ sha_scalar \in {HashTable(h) : h \in Scalars}
    /\ derived = NoDerived
    /\ \E local_funding_pubkey \in WitnessFundingPubkeys,
          remote_funding_pubkey \in WitnessFundingPubkeys,
          local_sig_first \in BOOLEAN,
          htlc_basepoint_secret \in Scalars,
          commitment_point \in Scalars,
          extra_input \in BOOLEAN,
          input_index \in {0, 1} :
          /\ local_funding_pubkey # remote_funding_pubkey
          /\ ~from_basepoints(commitment_point,
                   from_secret_key(LocalDelayedPaymentBasepointSecret),
                   from_secret_key(htlc_basepoint_secret),
                   from_secret_key(RemoteRevocationBasepointSecret),
                   from_secret_key(RemoteHtlcBasepointSecret)).panic
          /\ ~derive_private_key(RemoteHtlcBasepointSecret, commitment_point).panic
          /\ ~derive_private_key(htlc_basepoint_secret, commitment_point).panic
          /\ witness_call = WitnessScenario(local_funding_pubkey, remote_funding_pubkey,
                                local_sig_first, htlc_basepoint_secret, commitment_point,
                                extra_input, input_index)
    /\ witness = NoWitnesses
    /\ finalized = NoFinalized

\* signing.rs create_commitment_witness with the remote party's signature
CreateCommitmentWitness ==
    /\ ~witness.commitment.called
    /\ witness' = [witness EXCEPT !.commitment =
           Called(create_commitment_witness(witness_call.commitment_tx,
                      witness_call.funding_script, witness_call.funding_amount,
                      witness_call.keys_manager.funding_key,
                      witness_call.remote_funding_signature))]
    /\ UNCHANGED <<txVars, secretVars, verifyVars, keyVars, fundingVars, factorVars, signVars, witness_call, finalized, sortVars>>

\* transactions/commitment.rs create_commitment_witness, the caller having
\* signed with the local funding key first
CreateCommitmentWitnessFromSignatures ==
    /\ ~witness.from_signatures.called
    /\ LET local_funding_signature ==
               sign_transaction_input(witness_call.commitment_tx, 0,
                   witness_call.funding_script, witness_call.funding_amount,
                   witness_call.keys_manager.funding_key).sig_bytes
       IN  witness' = [witness EXCEPT !.from_signatures =
               Called(transactions_create_commitment_witness(witness_call.commitment_tx,
                          witness_call.funding_script, witness_call.funding_amount,
                          local_funding_signature, witness_call.remote_funding_signature))]
    /\ UNCHANGED <<txVars, secretVars, verifyVars, keyVars, fundingVars, factorVars, signVars, witness_call, finalized, sortVars>>

\* the local HTLC signature a caller makes with the derived HTLC key
LocalHtlcSignature(t, htlc_script) ==
    sign_transaction_input(t, 0, htlc_script, witness_call.htlc_amount,
        derive_private_key(witness_call.keys_manager.htlc_basepoint_secret,
                           witness_call.per_commitment_point).key).sig_bytes

CreateHtlcSuccessWitness ==
    /\ ~witness.htlc_success.called
    /\ witness' = [witness EXCEPT !.htlc_success =
           Called(create_htlc_success_witness(witness_call.remote_htlc_success_signature,
                      LocalHtlcSignature(witness_call.htlc_success_tx,
                                         witness_call.received_htlc_script),
                      witness_call.payment_preimage, witness_call.received_htlc_script))]
    /\ UNCHANGED <<txVars, secretVars, verifyVars, keyVars, fundingVars, factorVars, signVars, witness_call, finalized, sortVars>>

CreateHtlcTimeoutWitness ==
    /\ ~witness.htlc_timeout.called
    /\ witness' = [witness EXCEPT !.htlc_timeout =
           Called(create_htlc_timeout_witness(witness_call.remote_htlc_timeout_signature,
                      LocalHtlcSignature(witness_call.htlc_timeout_tx,
                                         witness_call.offered_htlc_script),
                      witness_call.offered_htlc_script))]
    /\ UNCHANGED <<txVars, secretVars, verifyVars, keyVars, fundingVars, factorVars, signVars, witness_call, finalized, sortVars>>

FinalizeHtlcTimeout ==
    /\ ~finalized.timeout.called
    /\ finalized' = [finalized EXCEPT !.timeout =
           Called(finalize_htlc_timeout(witness_call.keys_manager,
                      witness_call.htlc_timeout_tx, witness_call.input_index,
                      witness_call.offered_htlc_script, witness_call.htlc_amount,
                      witness_call.remote_htlc_timeout_signature))]
    /\ UNCHANGED <<txVars, secretVars, verifyVars, keyVars, fundingVars, factorVars, signVars, witness_call, witness, sortVars>>

FinalizeHtlcSuccess ==
    /\ ~finalized.success.called
    /\ finalized' = [finalized EXCEPT !.success =
           Called(finalize_htlc_success(witness_call.keys_manager,
                      witness_call.htlc_success_tx, witness_call.input_index,
                      witness_call.received_htlc_script, witness_call.htlc_amount,
                      witness_call.remote_htlc_success_signature,
                      witness_call.payment_preimage))]
    /\ UNCHANGED <<txVars, secretVars, verifyVars, keyVars, fundingVars, factorVars, signVars, witness_call, witness, sortVars>>

NextWitness ==
    \/ CreateCommitmentWitness
    \/ CreateCommitmentWitnessFromSignatures
    \/ CreateHtlcSuccessWitness
    \/ CreateHtlcTimeoutWitness
    \/ FinalizeHtlcTimeout
    \/ FinalizeHtlcSuccess

SpecWitness == InitWitness /\ [][NextWitness]_vars

\* a DER signature followed by the sighash type byte
IsSignature(element) ==
    /\ Len(element) > 1
    /\ element[Len(element)] = [byte |-> SIGHASH_ALL]
    /\ ~from_der(SubSeq(element, 1, Len(element) - 1)).err

\* the secret key that made a signature
SignerOf(element) == from_der(SubSeq(element, 1, Len(element) - 1)).sig.signer

IsFundingSpendStack(stack) ==
    /\ Len(stack) = 4
    /\ stack[1] = <<>>
    /\ IsSignature(stack[2])
    /\ IsSignature(stack[3])
    /\ stack[4] = witness_call.funding_script

IsHtlcSuccessStack(stack) ==
    /\ Len(stack) = 5
    /\ stack[1] = <<>>
    /\ IsSignature(stack[2])
    /\ IsSignature(stack[3])
    /\ Len(stack[4]) = 32
    /\ stack[4] = witness_call.payment_preimage
    /\ stack[5] = witness_call.received_htlc_script

IsHtlcTimeoutStack(stack) ==
    /\ Len(stack) = 5
    /\ stack[1] = <<>>
    /\ IsSignature(stack[2])
    /\ IsSignature(stack[3])
    /\ stack[4] = <<>>
    /\ stack[5] = witness_call.offered_htlc_script

Returned(call) == call.called /\ ~call.result.panic
FinalizedStack(call) == call.result.tx.input[witness_call.input_index + 1].witness

\* C22: every assembled witness has an empty element first and the witness
\* script last: the funding-spend witness is [empty, signature, signature,
\* funding script], the HTLC-success witness [empty, signature, signature,
\* 32-byte preimage, HTLC script] and the HTLC-timeout witness [empty,
\* signature, signature, empty, HTLC script].
C22_WitnessStacksExact ==
    /\ Returned(witness.commitment) => IsFundingSpendStack(witness.commitment.result.stack)
    /\ witness.from_signatures.called => IsFundingSpendStack(witness.from_signatures.result)
    /\ witness.htlc_success.called => IsHtlcSuccessStack(witness.htlc_success.result)
    /\ witness.htlc_timeout.called => IsHtlcTimeoutStack(witness.htlc_timeout.result)
    /\ Returned(finalized.success) => IsHtlcSuccessStack(FinalizedStack(finalized.success))
    /\ Returned(finalized.timeout) => IsHtlcTimeoutStack(FinalizedStack(finalized.timeout))

\* every builder has returned a witness
C22_Witness ==
    /\ Returned(witness.commitment)
    /\ witness.from_signatures.called
    /\ witness.htlc_success.called
    /\ witness.htlc_timeout.called
    /\ Returned(finalized.success)
    /\ Returned(finalized.timeout)
    /\ Len(FinalizedStack(finalized.success)[4]) = 32

LocalFundingSignature ==
    sign_transaction_input(witness_call.commitment_tx, 0, witness_call.funding_script,
        witness_call.funding_amount, witness_call.keys_manager.funding_key).sig_bytes

RequestedFundingStack ==
    IF witness_call.local_sig_first
    THEN <<<<>>, LocalFundingSignature, witness_call.remote_funding_signature,
           witness_call.funding_script>>
    ELSE <<<<>>, witness_call.remote_funding_signature, LocalFundingSignature,
           witness_call.funding_script>>

\* C23: the order of the two signatures in the funding-spend witness is
\* the one the caller asks for: [empty, local signature, remote signature,
\* script] with local-first requested and [empty, remote signature, local
\* signature, script] otherwise.
C23_SignatureOrderAsRequested ==
    /\ Returned(witness.commitment) => witness.commitment.result.stack = RequestedFundingStack
    /\ witness.from_signatures.called => witness.from_signatures.result = RequestedFundingStack

\* the serialized public key of a funding secret key
FundingPubkeyOf(secret_key) ==
    IF secret_key = witness_call.keys_manager.funding_key
    THEN witness_call.local_funding_pubkey
    ELSE witness_call.remote_funding_pubkey

\* C26: in every witness of create_commitment_witness the two signatures
\* stand in the order of their signers' public keys in the funding script:
\* the first signature is by the key pushed first, the second by the key
\* pushed second.
C26_SignaturesInScriptKeyOrder ==
    Returned(witness.commitment) =>
        LET stack == witness.commitment.result.stack
        IN  /\ FundingPubkeyOf(SignerOf(stack[2])) = witness_call.funding_script[2].key
            /\ FundingPubkeyOf(SignerOf(stack[3])) = witness_call.funding_script[3].key

\* C27: the local signature that finalize_htlc_timeout and
\* finalize_htlc_success put into the witness is by the private key whose
\* public key is the local_htlc_key of the HTLC script, the HTLC basepoint
\* tweaked by the per-commitment point.
C27_LocalHtlcSignatureByScriptKey ==
    /\ Returned(finalized.timeout) =>
           from_secret_key(SignerOf(FinalizedStack(finalized.timeout)[3]))
               = witness_call.offered_htlc_script.local_htlcpubkey
    /\ Returned(finalized.success) =>
           from_secret_key(SignerOf(FinalizedStack(finalized.success)[3]))
               = witness_call.received_htlc_script.local_htlcpubkey

OnlyWitnessOfInputChanged(before, after, input_index) ==
    /\ after.version = before.version
    /\ after.lock_time = before.lock_time
    /\ after.output = before.output
    /\ Len(after.input) = Len(before.input)
    /\ \A i \in 1..Len(before.input) :
           /\ after.input[i].previous_output = before.input[i].previous_output
           /\ after.input[i].script_sig = before.input[i].script_sig
           /\ after.input[i].sequence = before.input[i].sequence
           /\ i # input_index + 1 => after.input[i].witness = before.input[i].witness

\* C30: the transaction that finalize_htlc_timeout or finalize_htlc_success
\* returns differs from the one passed in only in the witness of
\* input[input_index]: version, lock time, every outpoint and sequence,
\* every output and every other input's witness are the same.
C30_FinalizeChangesOneWitnessOnly ==
    /\ Returned(finalized.timeout) =>
           OnlyWitnessOfInputChanged(witness_call.htlc_timeout_tx,
               finalized.timeout.result.tx, witness_call.input_index)
    /\ Returned(finalized.success) =>
           OnlyWitnessOfInputChanged(witness_call.htlc_success_tx,
               finalized.success.result.tx, witness_call.input_index)

\* the second of two inputs finalized, the first keeping the witness it had
C30_Witness ==
    /\ Returned(finalized.timeout)
    /\ Returned(finalized.success)
    /\ witness_call.input_index = 1
    /\ Len(witness_call.htlc_timeout_tx.input) = 2
    /\ finalized.timeout.result.tx.input[2].witness # witness_call.htlc_timeout_tx.input[2].witness
    /\ witness_call.htlc_timeout_tx.input[2].witness # <<>>
    /\ finalized.timeout.result.tx.lock_time # {}

====
